---- MODULE Spec2Model ----
(***************************************************************************)
(* Challenge-response authentication of the quest tracker API:             *)
(* AdminLoginService over RedisAuthConnector (nonces and login tokens kept *)
(* as expiring redis keys) and UserCollectionConnector (the user           *)
(* directory), as driven by AuthController and QuestCrudController.        *)
(*                                                                         *)
(* Every request runs as an asynchronous task; the synchronous code        *)
(* between two awaits is one action.  All redis commands go over the one   *)
(* shared client connection and the server executes them in the order they *)
(* were sent, so a command takes effect in the step that issues it.  What  *)
(* is asynchronous is the reply: the callback of a GET resolves a promise  *)
(* that the task picks up in a later step, as does the directory lookup.   *)
(***************************************************************************)
EXTENDS Integers, Sequences, FiniteSets, TLC

\* Bounds of the model.
MaxProcs == 2
MaxRequests == 3
TickStep == 600

\* RedisConnector.ts: default lifetimes in seconds.
DEFAULT_NONCE_EXPIRATION_TIME == 120
\* As DEFAULT_LOGIN_TOKEN_EXPIRATION_TIME, with twice the lifetime.
LOGIN_TOKEN_EXPIRATION_TIME_DOUBLED == 2 * 1800
DEFAULT_LOGIN_TOKEN_EXPIRATION_TIME == 1800

Procs == 1..MaxProcs

\* A string is a sequence of atoms; null is the empty sequence.
Null == <<>>

\* ------------------------------------------------------------------------
\* The user directory (read-only for this service).
Alice == <<"alice">>
Bob == <<"bob">>
Ghost == <<"ghost">>
Usernames == {Alice, Bob, Ghost}

UserDb ==
    (Alice :> [username |-> Alice, passwordHash |-> <<"hA">>, passwordSalt |-> <<"sA">>])
    @@ (Bob :> [username |-> Bob, passwordHash |-> <<"hB">>, passwordSalt |-> <<"sB">>])

NoUser == [username |-> Null, passwordHash |-> Null, passwordSalt |-> Null]

\* UserCollectionConnector.getUser: the record, or null.
getUser(username) ==
    IF username \in DOMAIN UserDb THEN UserDb[username] ELSE NoUser

\* ------------------------------------------------------------------------
\* Numbers and their decimal rendering.
DigitChars == <<"0", "1", "2", "3", "4", "5", "6", "7", "8", "9">>

RECURSIVE toString(_)
toString(n) ==
    IF n < 10 THEN <<DigitChars[n + 1]>>
    ELSE toString(n \div 10) \o <<DigitChars[(n % 10) + 1]>>

DigitValue(ch) == (CHOOSE i \in 1..10 : DigitChars[i] = ch) - 1

RECURSIVE parseNumber(_)
parseNumber(s) ==
    IF Len(s) = 0 THEN 0
    ELSE parseNumber(SubSeq(s, 1, Len(s) - 1)) * 10 + DigitValue(s[Len(s)])

\* uuid(): the k-th identifier handed out by the process.
UuidAtoms == <<"u1", "u2", "u3", "u4", "u5", "u6", "u7", "u8", "u9", "u10">>
\* As uuid, handing out the same identifier every time.
uuidRepeating(k) == <<UuidAtoms[1]>>
uuid(k) == <<UuidAtoms[k]>>

\* An id no nonce request ever returned.
NeverIssued == <<"u0">>

\* Values the nonce generator and the clients produce.
NonceValues == {12}
ClientNonces == {3}

\* bcrypt: hashSync(data) and compareSync(data, encrypted).
hashSync(data) == [hashOf |-> data]
compareSync(data, encrypted) == encrypted = hashSync(data)

\* The message both sides hash: `${serverNonce}${clientNonce}${passwordHash}`.
ProofMessage(serverNonce, clientNonce, passwordHash) ==
    toString(serverNonce) \o toString(clientNonce) \o passwordHash

HashGuesses == {UserDb[u].passwordHash : u \in DOMAIN UserDb}

\* ------------------------------------------------------------------------
\* Redis keys.
\* As NonceKey, with one key for every nonce.
NonceKeyShared(nonceId) == <<"nonce", ":">>
NonceKey(nonceId) == <<"nonce", ":">> \o nonceId
TokenKey(username, token) == <<"loginToken", ":">> \o username \o <<":">> \o token

IsTokenKey(key) == Len(key) > 0 /\ key[1] = "loginToken"

LoggedIn == <<"logged in">>

VARIABLES
    store,      \* redis: key -> [val, ttl] for the keys that exist
    proc,       \* the request each task slot is serving
    requests,   \* requests received so far
    uuids,      \* identifiers uuid() has handed out so far
    issued,     \* nonce ids the nonce endpoint has returned to a client so far
    minted,     \* tokens returned by getAccessToken so far
    quests,     \* mongo: the quests collection, quest id -> document
    published,  \* the messages sent to redis with PUBLISH, oldest first
    clients,    \* the module-level connections and connector instances
    hist        \* history of the run, read only by the properties

vars ==
    <<store, proc, requests, uuids, issued, minted, quests, published, clients, hist>>

NoReply == [state |-> "none", val |-> Null]

\* The body of an update request: has holds the properties the client sent.
NoBody ==
    [has |-> {}, id |-> Null, questId |-> Null, objectiveId |-> Null,
     name |-> "", description |-> "", questType |-> "", sourceRegion |-> "",
     visible |-> FALSE, text |-> "", completed |-> FALSE]

\* What a slot holds of a request to a quest route: the route, the parameters and
\* the body, the quest updateQuest found, the result of the connector call, the
\* number n of documents the result of its write names (insertedCount,
\* matchedCount, deletedCount or modifiedCount) and, as history, the number of
\* the request and the operations it has sent to the database.  Other requests
\* hold NoCall.
Call(route, questId, objectiveId, body, reqNo) ==
    [route |-> route, questId |-> questId, objectiveId |-> objectiveId,
     update |-> body, found |-> <<>>, documentExisted |-> FALSE,
     updateSucceeded |-> FALSE, reqNo |-> reqNo, dbOps |-> <<>>, n |-> 0]
NoCall == [route |-> "none", reqNo |-> 0]

\* A task slot that serves no request.  The fields late, lateNoUser, writes,
\* immediate, had, afterLogOut, age, again, afterDenial, others and afterUse are
\* history: what held when the request started (had: its token key was in the
\* store; others: the other token keys that were; afterUse: a call had used up
\* another nonce), and how many write commands it has issued.
Idle ==
    [op |-> "idle", pc |-> "idle", username |-> Null,
     clientPasswordHash |-> hashSync(Null), serverNonceId |-> Null,
     serverNonce |-> 0, clientNonce |-> 0, token |-> Null, reply |-> NoReply,
     result |-> "none", status |-> 0, body |-> Null,
     late |-> FALSE, lateNoUser |-> FALSE, writes |-> 0, immediate |-> FALSE,
     had |-> FALSE, afterLogOut |-> FALSE, age |-> -1,
     again |-> FALSE, afterDenial |-> FALSE, others |-> {},
     afterUse |-> FALSE, call |-> NoCall]

\* ------------------------------------------------------------------------
\* The module-level connections: the mongo client and Db handle with the two
\* connector singletons, and the redis client with its reconnect state.

\* The two factory calls of start-up.
InstanceCalls == {"questCollectionConnectorInstance", "userCollectionConnectorInstance"}

\* A mongo client is numbered by the connect call that opened it, and its Db
\* handle and a connector built on that handle carry the same number; 0 is null.
NoInstanceCall == [pc |-> "idle", db |-> 0]

\* The redis client: state none (not created), connecting, ready, waiting (a
\* retry is scheduled) or ended; attempts is the driver's counter, retry_delay
\* the delay of the scheduled retry, retries the number of retries scheduled
\* since the connection was last ready.
NoRedisConnection == [state |-> "none", attempts |-> 1, retry_delay |-> 0, retries |-> 0]

\* The process before start-up.
NoClients ==
    [connectedClient |-> 0, baseDb |-> 0, opened |-> 0,
     questConnectorInstance |-> 0, userConnectorInstance |-> 0,
     call |-> [k \in InstanceCalls |-> NoInstanceCall],
     redisConnection |-> NoRedisConnection]

\* The process after start-up, while it serves requests: both factory calls
\* have returned and the redis client is ready.
Serving ==
    [connectedClient |-> 2, baseDb |-> 2, opened |-> 2,
     questConnectorInstance |-> 2, userConnectorInstance |-> 1,
     call |-> ("questCollectionConnectorInstance" :> [pc |-> "done", db |-> 2])
              @@ ("userCollectionConnectorInstance" :> [pc |-> "done", db |-> 1]),
     redisConnection |-> [NoRedisConnection EXCEPT !.state = "ready"]]
NoHist ==
    [compared |-> {},     \* nonce ids some call compared a proof against
     comparedTwice |-> {},\* ... and that a second call compared against
     spent |-> {},        \* nonce ids of calls that returned a token or AuthFailureError
     spentNoUser |-> {},  \* nonce ids of calls that returned NoUserFoundError
     tookNoUser |-> {},   \* ... whose key was still there when that call deleted it
     legit |-> {},        \* token keys of logins with user, nonce and matching proof
     loggedOut |-> {},    \* keys of issued tokens logged out while no check of them ran
     age |-> <<>>,        \* key -> seconds since its last SETEX, if no DEL followed
     refreshed |-> {},    \* token keys a check has refreshed since their last logout
     values |-> <<>>]     \* nonce id -> the value retrieveNonceForLogin returned with it

Init ==
    /\ store = <<>>
    /\ proc = [p \in Procs |-> Idle]
    /\ requests = 0
    /\ uuids = 0
    /\ issued = {}
    /\ minted = {}
    /\ quests = <<>>
    /\ published = <<>>
    /\ clients = Serving
    /\ hist = NoHist

\* ------------------------------------------------------------------------
\* The redis server: SETEX, DEL and GET on a store s.
Setex(key, seconds, val) == [cmd |-> "SETEX", key |-> key, ttl |-> seconds, val |-> val]
Del(key) == [cmd |-> "DEL", key |-> key, ttl |-> 0, val |-> Null]

Execute(s, c) ==
    IF c.cmd = "SETEX"
    THEN [k \in DOMAIN s \cup {c.key} |->
            IF k = c.key THEN [val |-> c.val, ttl |-> c.ttl] ELSE s[k]]
    ELSE [k \in DOMAIN s \ {c.key} |-> s[k]]

RECURSIVE ExecuteAll(_, _)
ExecuteAll(s, cmds) ==
    IF Len(cmds) = 0 THEN s ELSE ExecuteAll(Execute(s, Head(cmds)), Tail(cmds))

\* History: the time since the last SETEX of each key that no DEL has followed.
Lifetime(key) ==
    IF IsTokenKey(key) THEN DEFAULT_LOGIN_TOKEN_EXPIRATION_TIME
    ELSE DEFAULT_NONCE_EXPIRATION_TIME

Restart(age, c) ==
    IF c.cmd = "SETEX"
    THEN [k \in DOMAIN age \cup {c.key} |-> IF k = c.key THEN 0 ELSE age[k]]
    ELSE [k \in DOMAIN age \ {c.key} |-> age[k]]

RECURSIVE RestartAll(_, _)
RestartAll(age, cmds) ==
    IF Len(cmds) = 0 THEN age ELSE RestartAll(Restart(age, Head(cmds)), Tail(cmds))

Elapse(age) ==
    [k \in DOMAIN age |->
        IF age[k] + TickStep >= Lifetime(k) THEN Lifetime(k) ELSE age[k] + TickStep]

\* GET: what the callback receives, (err, reply).
Get(s, key, failed) ==
    IF failed THEN [state |-> "err", val |-> Null]
    ELSE IF key \in DOMAIN s THEN [state |-> "ok", val |-> s[key].val]
    ELSE [state |-> "nil", val |-> Null]

\* As saveServerNonce, with the lifetime of a login token.
saveServerNonceLong(nonceId, nonce) ==
    Setex(NonceKey(nonceId), DEFAULT_LOGIN_TOKEN_EXPIRATION_TIME, toString(nonce))

\* RedisAuthConnector.saveServerNonce
saveServerNonce(nonceId, nonce) ==
    Setex(NonceKey(nonceId), DEFAULT_NONCE_EXPIRATION_TIME, toString(nonce))

\* RedisAuthConnector.invalidateServerNonce
invalidateServerNonce(nonceId) == Del(NonceKey(nonceId))

\* As getServerNonce, reading the first digit only.
getServerNonceFirstDigit(reply) ==
    IF reply.state = "err" \/ reply.state = "nil" THEN Null
    ELSE <<DigitValue(reply.val[1])>>

\* RedisAuthConnector.getServerNonce: what the callback resolves the promise to,
\* null when the command failed or the key is missing, else the number read.
getServerNonce(reply) ==
    IF reply.state = "err" \/ reply.state = "nil" THEN Null
    ELSE <<parseNumber(reply.val)>>

\* As addOrRefreshLoginToken, with the lifetime of a nonce.
addOrRefreshLoginTokenShort(username, tokenToRefresh) ==
    Setex(TokenKey(username, tokenToRefresh), DEFAULT_NONCE_EXPIRATION_TIME, LoggedIn)

\* RedisAuthConnector.addOrRefreshLoginToken
addOrRefreshLoginToken(username, tokenToRefresh) ==
    Setex(TokenKey(username, tokenToRefresh), DEFAULT_LOGIN_TOKEN_EXPIRATION_TIME, LoggedIn)

\* As invalidateLoginToken, with the key built from the token alone.
invalidateLoginTokenOtherKey(username, token) == Del(NonceKey(token))

\* RedisAuthConnector.invalidateLoginToken
invalidateLoginToken(username, token) == Del(TokenKey(username, token))

\* As loginTokenValid, answering true whatever the reply.
loginTokenValidAlways(reply) == TRUE
\* RedisAuthConnector.loginTokenValid: what the callback resolves the promise to.
loginTokenValid(reply) ==
    IF reply.state = "err" \/ reply.state = "nil" THEN FALSE ELSE TRUE

\* ------------------------------------------------------------------------
\* AdminLoginService.getAccessToken, after both lookups.

\* As AccessTokenResult, with the proof comparison left out.
AccessTokenResultNoCompare(resolvedUser, resolvedServerNonce, clientNonce, clientPasswordHash) ==
    IF resolvedServerNonce = Null THEN "NonceExpiredError" ELSE "token"

\* As MissingUserResult, with the nonce looked at first.
MissingUserResultNonceFirst(reply) ==
    IF reply.state = "nil" THEN "NonceExpiredError" ELSE "NoUserFoundError"
\* The outcome for a username without a record, whatever the reply to the GET
\* of the nonce is: getAccessToken throws before it awaits that reply.
MissingUserResult(reply) == "NoUserFoundError"

\* The outcome once the user is known to exist.
AccessTokenResult(resolvedUser, resolvedServerNonce, clientNonce, clientPasswordHash) ==
    IF resolvedServerNonce = Null THEN "NonceExpiredError"
    ELSE IF ~compareSync(ProofMessage(resolvedServerNonce[1], clientNonce,
                                      resolvedUser.passwordHash), clientPasswordHash)
         THEN "AuthFailureError"
         ELSE "token"

\* As AccessTokenWrites, with the nonce invalidated only on success.
AccessTokenWritesKeepOnFailure(result, username, serverNonceId, token) ==
    CASE result = "NonceExpiredError" -> <<>>
      [] result = "AuthFailureError" -> <<>>
      [] OTHER -> <<invalidateServerNonce(serverNonceId),
                    addOrRefreshLoginToken(username, token)>>

\* As AccessTokenWrites, with the token returned but never stored.
AccessTokenWritesNoToken(result, username, serverNonceId, token) ==
    CASE result = "NonceExpiredError" -> <<>>
      [] OTHER -> <<invalidateServerNonce(serverNonceId)>>

\* As AccessTokenWrites, with the nonce invalidated before the expiry check.
AccessTokenWritesAlwaysInvalidate(result, username, serverNonceId, token) ==
    CASE result = "NonceExpiredError" -> <<invalidateServerNonce(serverNonceId)>>
      [] result = "AuthFailureError" -> <<invalidateServerNonce(serverNonceId)>>
      [] OTHER -> <<invalidateServerNonce(serverNonceId),
                    addOrRefreshLoginToken(username, token)>>

\* The commands issued on the way to that outcome.
AccessTokenWrites(result, username, serverNonceId, token) ==
    CASE result = "NonceExpiredError" -> <<>>
      [] result = "AuthFailureError" -> <<invalidateServerNonce(serverNonceId)>>
      [] OTHER -> <<invalidateServerNonce(serverNonceId),
                    addOrRefreshLoginToken(username, token)>>

\* As NoUserWrites, with the invalidation left out.
NoUserWritesNone(serverNonceId) == <<>>

\* The commands issued when the user is missing.
NoUserWrites(serverNonceId) == <<invalidateServerNonce(serverNonceId)>>

\* As LoginStatus, with the expired nonce answered like a failed proof.
LoginStatusMerged(result) ==
    CASE result = "token" -> 201
      [] result = "NoUserFoundError" -> 404
      [] result = "NonceExpiredError" -> 403
      [] result = "AuthFailureError" -> 403
      [] OTHER -> 500

\* AuthController, POST /:userId/login: the response status of each outcome.
LoginStatus(result) ==
    CASE result = "token" -> 201
      [] result = "NoUserFoundError" -> 404
      [] result = "NonceExpiredError" -> 400
      [] result = "AuthFailureError" -> 403
      [] OTHER -> 500

\* AuthController, GET /:userId/nonce: the response status of each outcome.
NonceStatus(result) ==
    CASE result = "salt" -> 200
      [] result = "NoUserFoundError" -> 404
      [] OTHER -> 500

\* verifyAuthorization: 403 for an invalid token, next() (no response yet) else.
CheckStatus(tokenValid) == IF tokenValid THEN 0 ELSE 403

\* What the clients send.
ClientProofs ==
    {hashSync(ProofMessage(s, c, h)) : s \in NonceValues, c \in ClientNonces, h \in HashGuesses}
NonceIdInputs == issued \cup {NeverIssued}
TokenInputs == minted \cup {NeverIssued}

\* History: the time since the last SETEX of key, -1 if there was none or a DEL
\* has followed it.
KeyAge(key) == IF key \in DOMAIN hist.age THEN hist.age[key] ELSE -1

\* A request is taken by the first free task slot.
Free(p) ==
    /\ requests < MaxRequests
    /\ proc[p].op = "idle"
    /\ \A q \in Procs : q < p => proc[q].op # "idle"

\* ------------------------------------------------------------------------
\* GET /:userId/nonce

\* The commands of retrieveNonceForLogin.
NonceWrites(id, serverNonce) == <<saveServerNonce(id, serverNonce)>>

\* retrieveNonceForLogin, then getUserSalt up to its await.
NonceStart(p, userId, serverNonce) ==
    /\ Free(p)
    /\ LET id == uuid(uuids + 1)
           writes == NonceWrites(id, serverNonce) IN
        /\ store' = ExecuteAll(store, writes)
        /\ proc' = [proc EXCEPT ![p] =
                [Idle EXCEPT !.op = "nonce", !.pc = "awaitSalt", !.username = userId,
                             !.serverNonceId = id, !.serverNonce = serverNonce,
                             !.writes = Len(writes)]]
    /\ requests' = requests + 1
    /\ uuids' = uuids + 1
    /\ hist' = [hist EXCEPT
            !.age = RestartAll(@, NonceWrites(uuid(uuids + 1), serverNonce)),
            !.values = @ @@ (uuid(uuids + 1) :> serverNonce)]
    /\ UNCHANGED <<issued, minted, quests, published, clients>>

\* As getUserSalt, returning the other credential field of the record.
getUserSaltFromHash(user) == user.passwordHash

\* AdminLoginService.getUserSalt: what it returns for a record that exists.
getUserSalt(user) == user.passwordSalt

\* The NonceSaltPair the handler sends: {nonce: {id, serverNonce}, passwordSalt}.
NonceSaltPair(id, serverNonce, passwordSalt) ==
    id \o toString(serverNonce) \o passwordSalt

\* getUserSalt resolves or throws NoUserFoundError; the handler responds.
NonceSaltResolved(p) ==
    /\ proc[p].op = "nonce" /\ proc[p].pc = "awaitSalt"
    /\ LET user == getUser(proc[p].username)
           result == IF user = NoUser THEN "NoUserFoundError" ELSE "salt" IN
        /\ proc' = [proc EXCEPT ![p].pc = "done", ![p].result = result,
                                ![p].status = NonceStatus(result),
                                ![p].body =
                                    IF result = "salt"
                                    THEN NonceSaltPair(proc[p].serverNonceId,
                                                       proc[p].serverNonce,
                                                       getUserSalt(user))
                                    ELSE Null]
        /\ issued' = IF result = "salt" THEN issued \cup {proc[p].serverNonceId}
                      ELSE issued
    /\ UNCHANGED <<store, requests, uuids, minted, hist, quests, published, clients>>

\* ------------------------------------------------------------------------
\* POST /:userId/login

\* getAccessToken up to its first await: both lookups are started.
LoginBegin(p, username, clientPasswordHash, serverNonceId, clientNonce, failed) ==
    /\ Free(p)
    /\ proc' = [proc EXCEPT ![p] =
            [Idle EXCEPT !.op = "login", !.pc = "awaitUser", !.username = username,
                         !.clientPasswordHash = clientPasswordHash,
                         !.serverNonceId = serverNonceId, !.clientNonce = clientNonce,
                         !.reply = Get(store, NonceKey(serverNonceId), failed),
                         !.age = KeyAge(NonceKey(serverNonceId)),
                         !.afterUse = \E q \in Procs :
                              /\ proc[q].op = "login" /\ proc[q].pc = "done"
                              /\ proc[q].writes > 0
                              /\ proc[q].reply.state = "ok"
                              /\ proc[q].serverNonceId # serverNonceId,
                         !.late = serverNonceId \in hist.spent,
                         !.lateNoUser = serverNonceId \in hist.spentNoUser]]
    /\ requests' = requests + 1
    /\ UNCHANGED <<store, uuids, issued, minted, hist, quests, published, clients>>

LoginStart(p, username, clientPasswordHash, serverNonceId, clientNonce) ==
    LoginBegin(p, username, clientPasswordHash, serverNonceId, clientNonce, FALSE)

\* await userPromise: a missing user invalidates the nonce and fails.
LoginUserResolved(p) ==
    /\ proc[p].op = "login" /\ proc[p].pc = "awaitUser"
    /\ IF getUser(proc[p].username) = NoUser
       THEN LET writes == NoUserWrites(proc[p].serverNonceId) IN
            /\ store' = ExecuteAll(store, writes)
            /\ proc' = [proc EXCEPT ![p].pc = "done",
                                    ![p].result = MissingUserResult(proc[p].reply),
                                    ![p].status =
                                        LoginStatus(MissingUserResult(proc[p].reply)),
                                    ![p].writes = Len(writes)]
            /\ hist' = [hist EXCEPT
                    !.age = RestartAll(@, writes),
                    !.spentNoUser = @ \cup {proc[p].serverNonceId},
                    !.tookNoUser = IF NonceKey(proc[p].serverNonceId) \in DOMAIN store
                                   THEN @ \cup {proc[p].serverNonceId} ELSE @]
       ELSE /\ proc' = [proc EXCEPT ![p].pc = "awaitNonce"]
            /\ UNCHANGED <<store, hist>>
    /\ UNCHANGED <<requests, uuids, issued, minted, quests, published, clients>>

\* await serverNoncePromise and the rest of getAccessToken.
LoginNonceResolved(p) ==
    /\ proc[p].op = "login" /\ proc[p].pc = "awaitNonce"
    /\ LET r == proc[p]
           resolvedUser == getUser(r.username)
           resolvedServerNonce == getServerNonce(r.reply)
           result == AccessTokenResult(resolvedUser, resolvedServerNonce,
                                       r.clientNonce, r.clientPasswordHash)
           token == uuid(uuids + 1)
           writes == AccessTokenWrites(result, r.username, r.serverNonceId, token)
           seen == resolvedServerNonce # Null
           matches == /\ seen
                      /\ r.clientPasswordHash =
                            hashSync(ProofMessage(resolvedServerNonce[1], r.clientNonce,
                                                  resolvedUser.passwordHash))
       IN
        /\ store' = ExecuteAll(store, writes)
        /\ proc' = [proc EXCEPT ![p].pc = "done", ![p].result = result,
                                ![p].status = LoginStatus(result),
                                ![p].token = IF result = "token" THEN token ELSE Null,
                                ![p].body = IF result = "token" THEN token ELSE Null,
                                ![p].writes = Len(writes),
                                ![p].immediate = (result = "token")]
        /\ uuids' = IF result = "token" THEN uuids + 1 ELSE uuids
        /\ minted' = IF result = "token" THEN minted \cup {token} ELSE minted
        /\ hist' = [hist EXCEPT
                !.age = RestartAll(@, writes),
                !.compared = IF seen THEN @ \cup {r.serverNonceId} ELSE @,
                !.comparedTwice = IF seen /\ r.serverNonceId \in hist.compared
                                  THEN @ \cup {r.serverNonceId} ELSE @,
                !.spent = IF result \in {"token", "AuthFailureError"}
                          THEN @ \cup {r.serverNonceId} ELSE @,
                !.legit = IF matches THEN @ \cup {TokenKey(r.username, token)} ELSE @]
    /\ UNCHANGED <<requests, issued, quests, published, clients>>

\* ------------------------------------------------------------------------
\* verifyAuthorization -> checkLoginValidityAndResetExpiration

\* The slot of a request whose validity check has started.
CheckSlot(username, token, failed) ==
    [Idle EXCEPT !.op = "check", !.pc = "awaitValid", !.username = username,
                 !.token = token,
                 !.reply = Get(store, TokenKey(username, token), failed),
                 !.had = TokenKey(username, token) \in DOMAIN store,
                 !.age = KeyAge(TokenKey(username, token)),
                 !.again = TokenKey(username, token) \in hist.refreshed,
                 !.afterDenial = \E q \in Procs :
                      /\ proc[q].op = "check" /\ proc[q].result = "false"
                      /\ proc[q].username = username /\ proc[q].token = token,
                 !.afterLogOut = TokenKey(username, token) \in hist.loggedOut,
                 !.immediate = \E q \in Procs :
                      /\ proc[q].op = "login" /\ proc[q].result = "token"
                      /\ proc[q].immediate
                      /\ proc[q].username = username /\ proc[q].token = token]

CheckBegin(p, username, token, failed) ==
    /\ Free(p)
    /\ proc' = [proc EXCEPT ![p] = CheckSlot(username, token, failed)]
    /\ requests' = requests + 1
    /\ UNCHANGED <<store, uuids, issued, minted, hist, quests, published, clients>>

CheckStart(p, username, token) == CheckBegin(p, username, token, FALSE)

\* The commands checkLoginValidityAndResetExpiration issues after the lookup.
CheckWrites(tokenValid, username, token) ==
    IF tokenValid THEN <<addOrRefreshLoginToken(username, token)>> ELSE <<>>

CheckResolved(p) ==
    /\ proc[p].op = "check" /\ proc[p].pc = "awaitValid"
    /\ LET tokenValid == loginTokenValid(proc[p].reply)
           writes == CheckWrites(tokenValid, proc[p].username, proc[p].token) IN
        /\ store' = ExecuteAll(store, writes)
        /\ proc' = [proc EXCEPT ![p].pc = IF tokenValid /\ proc[p].call.route # "none"
                                         THEN "handler" ELSE "done",
                                ![p].result = IF tokenValid THEN "true" ELSE "false",
                                ![p].status = CheckStatus(tokenValid),
                                ![p].writes = Len(writes)]
        /\ hist' = [hist EXCEPT
                !.age = RestartAll(@, writes),
                !.refreshed = IF tokenValid
                              THEN @ \cup {TokenKey(proc[p].username, proc[p].token)}
                              ELSE @]
    /\ UNCHANGED <<requests, uuids, issued, minted, quests, published, clients>>

\* ------------------------------------------------------------------------
\* QuestCrudController: the routes under /quests, and whether a route is
\* registered with verifyAuthorization in front of its handler.
QuestRoutes ==
    {"GET /", "POST /", "POST /:questId/objectives", "PUT /:questId",
     "PUT /:questId/objectives/:objectiveId", "DELETE /:questId",
     "DELETE /:questId/objectives/:objectiveId"}

VerifiesAuthorization(route) == route # "GET /"

\* A request to a route without verifyAuthorization: the handler runs, whatever
\* the headers say.  (With verifyAuthorization the request starts as CheckStart
\* and the handler runs once the check has answered true.)
QuestHandler(p, route, username, token) ==
    /\ ~VerifiesAuthorization(route)
    /\ Free(p)
    /\ proc' = [proc EXCEPT ![p] =
            [Idle EXCEPT !.op = "quests", !.pc = "done", !.username = username,
                         !.token = token, !.status = 200,
                         !.had = TokenKey(username, token) \in DOMAIN store]]
    /\ requests' = requests + 1
    /\ UNCHANGED <<store, uuids, issued, minted, hist, quests, published, clients>>

\* ------------------------------------------------------------------------
\* QuestCollectionConnector: the quests collection of the database.  A quest
\* document is a record, the collection a function from quest id to document;
\* null is the empty sequence, a found document a sequence of one.

\* The quest and the objective a client posts, with the id the handler gives it.
NewQuest(id) ==
    [id |-> id, name |-> "n0", description |-> "d0", questType |-> "main",
     sourceRegion |-> "r0", visible |-> TRUE, objectives |-> <<>>]
NewObjective(id) == [id |-> id, text |-> "t0", completed |-> FALSE]

\* update.f is truthy: a string property that was sent and is not empty, a
\* boolean property that was sent and is true.
Truthy(update, f) ==
    /\ f \in update.has
    /\ IF f \in {"visible", "completed"} THEN update[f] ELSE update[f] # ""

Position(objectives, objectiveId) ==
    {i \in 1..Len(objectives) : objectives[i].id = objectiveId}

insertOne(c, q) == [id \in DOMAIN c \cup {q.id} |-> IF id = q.id THEN q ELSE c[id]]
count(c, id) == IF id \in DOMAIN c THEN 1 ELSE 0
countObjective(c, questId, objectiveId) ==
    IF questId \in DOMAIN c /\ Position(c[questId].objectives, objectiveId) # {}
    THEN 1 ELSE 0
findOne(c, id) == IF id \in DOMAIN c THEN <<c[id]>> ELSE <<>>
replaceOne(c, id, quest) == IF id \in DOMAIN c THEN [c EXCEPT ![id] = quest] ELSE c
deleteOne(c, id) == [k \in DOMAIN c \ {id} |-> c[k]]

\* updateOne({id}, {$push: {objectives: objective}})
pushObjective(c, id, objective) ==
    IF id \in DOMAIN c THEN [c EXCEPT ![id].objectives = Append(@, objective)] ELSE c

\* updateOne({id}, {$pull: {objectives: {id: objectiveId}}})
pullObjective(c, id, objectiveId) ==
    IF id \in DOMAIN c
    THEN [c EXCEPT ![id].objectives = SelectSeq(@, LAMBDA o : o.id # objectiveId)]
    ELSE c

\* updateObjective's dbTransaction: the properties to $set on the objective.
ObjectiveUpdateOperation(update) == {f \in {"text", "completed"} : Truthy(update, f)}

\* updateOne({id, "objectives.id"}, {$set: dbTransaction}) on the first match.
setObjective(c, update) ==
    IF countObjective(c, update.questId, update.objectiveId) = 0
    THEN c
    ELSE LET i == CHOOSE j \in Position(c[update.questId].objectives, update.objectiveId) :
                      \A k \in Position(c[update.questId].objectives, update.objectiveId) : j <= k
             dbTransaction == ObjectiveUpdateOperation(update) IN
         [c EXCEPT ![update.questId].objectives[i] =
             [@ EXCEPT !.text = IF "text" \in dbTransaction THEN update.text ELSE @,
                       !.completed = IF "completed" \in dbTransaction
                                     THEN update.completed ELSE @]]

\* updateQuest: whether it throws EmptyUpdateError, and the document it replaces
\* the stored one with.
\* As EmptyQuestUpdate, finding no update empty.
EmptyQuestUpdateNever(update) == FALSE
EmptyQuestUpdate(update) ==
    /\ ~Truthy(update, "description") /\ ~Truthy(update, "questType")
    /\ ~Truthy(update, "sourceRegion") /\ "visible" \notin update.has

UpdatedQuest(quest, update) ==
    [quest EXCEPT
        !.name = IF Truthy(update, "name") THEN update.name ELSE @,
        !.description = IF Truthy(update, "description") THEN update.description ELSE @,
        !.questType = IF Truthy(update, "questType") THEN update.questType ELSE @,
        !.sourceRegion = IF Truthy(update, "sourceRegion") THEN update.sourceRegion ELSE @,
        !.visible = IF "visible" \in update.has THEN update.visible ELSE @]

\* As EmptyObjectiveUpdate, finding no update empty.
EmptyObjectiveUpdateNever(update) == FALSE
\* updateObjective: whether it throws EmptyUpdateError.
EmptyObjectiveUpdate(update) == ~Truthy(update, "text") /\ ~Truthy(update, "completed")

\* ------------------------------------------------------------------------
\* RedisUpdateConnector: one PUBLISH per call.  by is history: the number of
\* the request whose handler made the call.
ADD_CHANNEL == "new-quests"
UPDATE_CHANNEL == "quest-updates"
REMOVE_CHANNEL == "removed-quests"

\* type is the HierarchyLevel of the change, "QUEST" or "OBJECTIVE".
Message(channel, type, questId, objectiveId, by) ==
    [channel |-> channel, type |-> type, questId |-> questId,
     objectiveId |-> objectiveId, by |-> by]

pushAdd(log, type, questId, objectiveId, by) ==
    Append(log, Message(ADD_CHANNEL, type, questId, objectiveId, by))
\* As pushUpdate, on the channel of pushAdd.
pushUpdateOnAddChannel(log, type, questId, objectiveId, by) ==
    Append(log, Message(ADD_CHANNEL, type, questId, objectiveId, by))
pushUpdate(log, type, questId, objectiveId, by) ==
    Append(log, Message(UPDATE_CHANNEL, type, questId, objectiveId, by))
pushRemoval(log, type, questId, objectiveId, by) ==
    Append(log, Message(REMOVE_CHANNEL, type, questId, objectiveId, by))

\* ------------------------------------------------------------------------
\* QuestCrudController: the handlers of the routes that change quests.  Each
\* database operation takes effect in the step that issues it; the handler goes
\* on when its result has come back.

\* The status a handler answers with, given the result of the connector call.
AddQuestStatus(completedSuccessfully) == IF completedSuccessfully THEN 201 ELSE 502
AddObjectiveStatus(documentExisted, updateSucceeded) ==
    IF documentExisted /\ updateSucceeded THEN 201
    ELSE IF ~documentExisted /\ updateSucceeded THEN 404 ELSE 502
UpdateStatus(documentExisted, updateSucceeded) ==
    IF documentExisted /\ updateSucceeded THEN 202
    ELSE IF ~documentExisted /\ updateSucceeded THEN 404 ELSE 502
DeleteStatus(deleted) == IF deleted THEN 202 ELSE 404
EmptyUpdateStatus == 400

RouteStatus(route, documentExisted, updateSucceeded) ==
    CASE route = "POST /" -> AddQuestStatus(updateSucceeded)
      [] route = "POST /:questId/objectives" ->
            AddObjectiveStatus(documentExisted, updateSucceeded)
      [] route \in {"PUT /:questId", "PUT /:questId/objectives/:objectiveId"} ->
            UpdateStatus(documentExisted, updateSucceeded)
      [] OTHER -> DeleteStatus(updateSucceeded)

\* The message a handler publishes before it answers status.
Publish(log, route, status, questId, objectiveId, by) ==
    CASE route = "POST /" /\ status = 201 ->
            pushAdd(log, "QUEST", questId, Null, by)
      [] route = "POST /:questId/objectives" /\ status = 201 ->
            pushAdd(log, "OBJECTIVE", questId, objectiveId, by)
      [] route = "PUT /:questId" /\ status = 202 ->
            pushUpdate(log, "QUEST", questId, Null, by)
      [] route = "PUT /:questId/objectives/:objectiveId" /\ status = 202 ->
            pushUpdate(log, "OBJECTIVE", questId, objectiveId, by)
      [] route = "DELETE /:questId" /\ status = 202 ->
            pushRemoval(log, "QUEST", questId, Null, by)
      [] route = "DELETE /:questId/objectives/:objectiveId" /\ status = 202 ->
            pushRemoval(log, "OBJECTIVE", questId, objectiveId, by)
      [] OTHER -> log

\* A request to a route behind verifyAuthorization: without one of the two
\* headers it is answered 400 at once, else the validity check starts.
RouteStart(p, route, username, token, questId, objectiveId, body) ==
    /\ VerifiesAuthorization(route)
    /\ Free(p)
    /\ proc' = [proc EXCEPT ![p] =
            [(IF username = Null \/ token = Null
              THEN [Idle EXCEPT !.op = "check", !.pc = "done", !.username = username,
                                !.token = token, !.status = 400]
              ELSE CheckSlot(username, token, FALSE))
             EXCEPT !.call = Call(route, questId, objectiveId, body, requests + 1)]]
    /\ requests' = requests + 1
    /\ UNCHANGED <<store, uuids, issued, minted, quests, published, hist, clients>>

\* next() has been called: the handler runs up to its first database operation.
HandlerStart(p) ==
    /\ proc[p].pc = "handler"
    /\ LET r == proc[p]
           id == uuid(uuids + 1)
           update == [r.call.update EXCEPT !.id = r.call.questId,
                                           !.questId = r.call.questId,
                                           !.objectiveId = r.call.objectiveId] IN
        /\ r.call.route \in {"POST /", "POST /:questId/objectives"} => uuids < Len(UuidAtoms)
        /\ uuids' = IF r.call.route \in {"POST /", "POST /:questId/objectives"}
                    THEN uuids + 1 ELSE uuids
        /\ quests' =
            CASE r.call.route = "POST /" -> insertOne(quests, NewQuest(id))
              [] r.call.route = "DELETE /:questId" -> deleteOne(quests, r.call.questId)
              [] r.call.route = "DELETE /:questId/objectives/:objectiveId" ->
                    pullObjective(quests, r.call.questId, r.call.objectiveId)
              [] OTHER -> quests
        /\ proc' = [proc EXCEPT ![p] =
            CASE r.call.route = "POST /" ->
                    [r EXCEPT !.pc = "respond", !.call.questId = id,
                              !.call.dbOps = <<"insertOne">>, !.call.n = 1,
                              !.call.documentExisted = TRUE,
                              !.call.updateSucceeded = TRUE]
              [] r.call.route = "POST /:questId/objectives" ->
                    [r EXCEPT !.pc = "second", !.call.objectiveId = id,
                              !.call.dbOps = <<"count">>,
                              !.call.documentExisted = count(quests, r.call.questId) = 1]
              [] r.call.route = "PUT /:questId" ->
                    [r EXCEPT !.pc = "second", !.call.update = update,
                              !.call.dbOps = <<"findOne">>,
                              !.call.found = findOne(quests, r.call.questId)]
              [] r.call.route = "PUT /:questId/objectives/:objectiveId" ->
                    IF EmptyObjectiveUpdate(update)
                    THEN [r EXCEPT !.pc = "done", !.call.update = update,
                                   !.result = "EmptyUpdateError",
                                   !.status = EmptyUpdateStatus]
                    ELSE [r EXCEPT !.pc = "second", !.call.update = update,
                                   !.call.dbOps = <<"count">>,
                                   !.call.documentExisted =
                                     countObjective(quests, r.call.questId,
                                                    r.call.objectiveId) = 1]
              [] r.call.route = "DELETE /:questId" ->
                    [r EXCEPT !.pc = "respond", !.call.documentExisted = TRUE,
                              !.call.dbOps = <<"deleteOne">>,
                              !.call.n = count(quests, r.call.questId),
                              !.call.updateSucceeded = count(quests, r.call.questId) = 1]
              [] OTHER ->
                    [r EXCEPT !.pc = "respond", !.call.documentExisted = TRUE,
                              !.call.dbOps = <<"updateOne">>,
                              !.call.n = countObjective(quests, r.call.questId,
                                                        r.call.objectiveId),
                              !.call.updateSucceeded =
                                countObjective(quests, r.call.questId,
                                               r.call.objectiveId) = 1]]
    /\ UNCHANGED <<store, requests, issued, minted, published, hist, clients>>

\* The result of the first operation is back: the connector goes on to its
\* second operation, or returns or throws without one.
HandlerSecond(p) ==
    /\ proc[p].pc = "second"
    /\ LET r == proc[p] IN
        /\ quests' =
            CASE r.call.route = "POST /:questId/objectives" ->
                    pushObjective(quests, r.call.questId, NewObjective(r.call.objectiveId))
              [] r.call.route = "PUT /:questId" ->
                    IF r.call.found = <<>> \/ EmptyQuestUpdate(r.call.update)
                    THEN quests
                    ELSE replaceOne(quests, r.call.questId,
                                    UpdatedQuest(r.call.found[1], r.call.update))
              [] OTHER -> setObjective(quests, r.call.update)
        /\ proc' = [proc EXCEPT ![p] =
            IF r.call.route = "PUT /:questId" /\ r.call.found = <<>>
            THEN [r EXCEPT !.pc = "done", !.call.documentExisted = FALSE,
                           !.call.updateSucceeded = TRUE,
                           !.status = UpdateStatus(FALSE, TRUE)]
            ELSE IF r.call.route = "PUT /:questId" /\ EmptyQuestUpdate(r.call.update)
            THEN [r EXCEPT !.pc = "done", !.result = "EmptyUpdateError",
                           !.status = EmptyUpdateStatus]
            ELSE [r EXCEPT !.pc = "respond", !.call.updateSucceeded = TRUE,
                           !.call.dbOps = Append(@, IF r.call.route = "PUT /:questId"
                                               THEN "replaceOne" ELSE "updateOne"),
                           !.call.n =
                               IF r.call.route = "PUT /:questId/objectives/:objectiveId"
                               THEN countObjective(quests, r.call.questId,
                                                   r.call.objectiveId)
                               ELSE count(quests, r.call.questId),
                           !.call.documentExisted =
                               IF r.call.route = "PUT /:questId" THEN TRUE ELSE @]]
    /\ UNCHANGED <<store, requests, uuids, issued, minted, published, hist, clients>>

\* The connector has returned: the handler publishes and answers.
HandlerRespond(p) ==
    /\ proc[p].pc = "respond"
    /\ LET r == proc[p]
           status == RouteStatus(r.call.route, r.call.documentExisted,
                                 r.call.updateSucceeded) IN
        /\ published' = Publish(published, r.call.route, status, r.call.questId,
                                r.call.objectiveId, r.call.reqNo)
        /\ proc' = [proc EXCEPT ![p].pc = "done", ![p].status = status]
    /\ UNCHANGED <<store, requests, uuids, issued, minted, quests, hist, clients>>

\* ------------------------------------------------------------------------
\* DELETE /:userId/token/:loginToken -> logOut (no await: one step)

\* As LogOutWrites, with no command sent.
LogOutWritesNone(username, token) == <<>>

\* The commands of logOut.
LogOutWrites(username, token) == <<invalidateLoginToken(username, token)>>

\* The response status of the logout handler.
LogOutStatus(userId, loginToken) ==
    IF userId = Null \/ loginToken = Null THEN 400 ELSE 202

LogOut(p, username, token) ==
    /\ Free(p)
    /\ LET writes == LogOutWrites(username, token) IN
        /\ store' = ExecuteAll(store, writes)
        /\ proc' = [q \in Procs |->
                IF q = p
                THEN [Idle EXCEPT !.op = "logout", !.pc = "done", !.username = username,
                                  !.token = token,
                                  !.status = LogOutStatus(username, token),
                                  !.writes = Len(writes),
                                  !.had = TokenKey(username, token) \in DOMAIN store,
                                  !.others = {k \in DOMAIN store :
                                      IsTokenKey(k) /\ k # TokenKey(username, token)}]
                ELSE IF TokenKey(proc[q].username, proc[q].token) = TokenKey(username, token)
                     THEN [proc[q] EXCEPT !.immediate = FALSE] ELSE proc[q]]
    /\ requests' = requests + 1
    /\ hist' = [hist EXCEPT
            !.age = RestartAll(@, LogOutWrites(username, token)),
            !.refreshed = @ \ {TokenKey(username, token)},
            !.loggedOut =
            IF \E q \in Procs : /\ proc[q].op = "check" /\ proc[q].pc = "awaitValid"
                                /\ proc[q].username = username /\ proc[q].token = token
               \/ TokenKey(username, token) \notin hist.legit
            THEN @ ELSE @ \cup {TokenKey(username, token)}]
    /\ UNCHANGED <<uuids, issued, minted, quests, published, clients>>

\* The response has been sent; the slot takes the next request.
Finish(p) ==
    /\ proc[p].pc = "done"
    /\ proc' = [proc EXCEPT ![p] = Idle]
    /\ UNCHANGED <<store, requests, uuids, issued, minted, hist, quests,
                   published, clients>>

\* The store s after TickStep seconds: keys whose lifetime is over are gone.
Aged(s) ==
    [k \in {x \in DOMAIN s : s[x].ttl > TickStep} |-> [s[k] EXCEPT !.ttl = @ - TickStep]]

\* TickStep seconds pass.
Tick ==
    /\ DOMAIN store # {}
    /\ store' = Aged(store)
    /\ proc' = [p \in Procs |-> [proc[p] EXCEPT !.immediate = FALSE]]
    /\ hist' = [hist EXCEPT !.age = Elapse(@)]
    /\ UNCHANGED <<requests, uuids, issued, minted, quests, published, clients>>

\* ------------------------------------------------------------------------
\* Failures of the store and of the directory.

\* The GET of getAccessToken fails (connection lost): its callback gets an error.
LoginStartGetFails(p, username, clientPasswordHash, serverNonceId, clientNonce) ==
    LoginBegin(p, username, clientPasswordHash, serverNonceId, clientNonce, TRUE)

\* The GET of checkLoginValidityAndResetExpiration fails.
CheckStartGetFails(p, username, token) == CheckBegin(p, username, token, TRUE)

\* getUser rejects: the error leaves getAccessToken / getUserSalt unclassified.
UserLookupFails(p) ==
    /\ proc[p].pc \in {"awaitUser", "awaitSalt"}
    /\ proc' = [proc EXCEPT ![p].pc = "done", ![p].result = "Error",
                            ![p].status = IF proc[p].op = "login"
                                          THEN LoginStatus("Error")
                                          ELSE NonceStatus("Error")]
    /\ UNCHANGED <<store, requests, uuids, issued, minted, hist, quests,
                   published, clients>>

\* ------------------------------------------------------------------------
Next ==
    \/ \E p \in Procs, u \in Usernames, s \in NonceValues : NonceStart(p, u, s)
    \/ \E p \in Procs : NonceSaltResolved(p)
    \/ \E p \in Procs, u \in Usernames, h \in ClientProofs, n \in NonceIdInputs,
          c \in ClientNonces : LoginStart(p, u, h, n, c)
    \/ \E p \in Procs : LoginUserResolved(p)
    \/ \E p \in Procs : LoginNonceResolved(p)
    \/ \E p \in Procs, u \in Usernames, t \in TokenInputs : CheckStart(p, u, t)
    \/ \E p \in Procs : CheckResolved(p)
    \/ \E p \in Procs, u \in Usernames, t \in TokenInputs : LogOut(p, u, t)
    \/ \E p \in Procs : Finish(p)
    \/ Tick

Spec == Init /\ [][Next]_vars

NextFail ==
    \/ Next
    \/ \E p \in Procs, u \in Usernames, h \in ClientProofs, n \in NonceIdInputs,
          c \in ClientNonces : LoginStartGetFails(p, u, h, n, c)
    \/ \E p \in Procs, u \in Usernames, t \in TokenInputs : CheckStartGetFails(p, u, t)
    \/ \E p \in Procs : UserLookupFails(p)

SpecFail == Init /\ [][NextFail]_vars

\* The two endpoints of a login attempt on their own: nonce requests and login
\* calls in every name, with no validity checks, no logouts and no time passing.
NextAttempts ==
    \/ \E p \in Procs, u \in Usernames, s \in NonceValues : NonceStart(p, u, s)
    \/ \E p \in Procs : NonceSaltResolved(p)
    \/ \E p \in Procs, u \in Usernames, h \in ClientProofs, n \in NonceIdInputs,
          c \in ClientNonces : LoginStart(p, u, h, n, c)
    \/ \E p \in Procs : LoginUserResolved(p)
    \/ \E p \in Procs : LoginNonceResolved(p)
    \/ \E p \in Procs : Finish(p)

SpecAttempts == Init /\ [][NextAttempts]_vars

\* The service with the quest routes that run without a validity check.
NextQuests ==
    \/ Next
    \/ \E p \in Procs, r \in QuestRoutes, u \in Usernames, t \in TokenInputs :
          QuestHandler(p, r, u, t)

SpecQuests == Init /\ [][NextQuests]_vars

\* ------------------------------------------------------------------------
\* Sessions under way: alice asked for a nonce and logged in with it, bob did the
\* same, and alice asked for two more nonces; the six requests have been answered
\* and no time has passed.
SessionCommands ==
    NonceWrites(uuid(1), 12)
    \o AccessTokenWrites("token", Alice, uuid(1), uuid(2))
    \o NonceWrites(uuid(3), 12)
    \o AccessTokenWrites("token", Bob, uuid(3), uuid(4))
    \o NonceWrites(uuid(5), 12)
    \o NonceWrites(uuid(6), 12)

SessionState ==
    /\ store = ExecuteAll(<<>>, SessionCommands)
    /\ proc = [p \in Procs |-> Idle]
    /\ uuids = 6
    /\ issued = {uuid(1), uuid(3), uuid(5), uuid(6)}
    /\ minted = {uuid(2), uuid(4)}
    /\ quests = <<>>
    /\ published = <<>>
    /\ clients = Serving
    /\ hist = [NoHist EXCEPT !.compared = {uuid(1), uuid(3)},
                             !.spent = {uuid(1), uuid(3)},
                             !.legit = {TokenKey(Alice, uuid(2)), TokenKey(Bob, uuid(4))},
                             !.age = RestartAll(<<>>, SessionCommands),
                             !.values = [id \in {uuid(1), uuid(3), uuid(5), uuid(6)} |-> 12]]

\* The run goes on from there for MaxRequests - 1 requests.
InitSession == SessionState /\ requests = 1

\* The requests that follow use or end the session: validity checks and logouts
\* in the names of alice and bob, while time passes.
SessionUsers == {Alice, Bob}

NextSession ==
    \/ \E p \in Procs, u \in SessionUsers, t \in TokenInputs : CheckStart(p, u, t)
    \/ \E p \in Procs : CheckResolved(p)
    \/ \E p \in Procs, u \in SessionUsers, t \in TokenInputs : LogOut(p, u, t)
    \/ \E p \in Procs : Finish(p)
    \/ Tick

SpecSession == InitSession /\ [][NextSession]_vars

\* The same sessions, followed by requests of every kind in the name of alice.
NextLogins ==
    \/ \E p \in Procs, s \in NonceValues : NonceStart(p, Alice, s)
    \/ \E p \in Procs : NonceSaltResolved(p)
    \/ \E p \in Procs, h \in ClientProofs, n \in NonceIdInputs, c \in ClientNonces :
          LoginStart(p, Alice, h, n, c)
    \/ \E p \in Procs : LoginUserResolved(p)
    \/ \E p \in Procs : LoginNonceResolved(p)
    \/ \E p \in Procs, t \in TokenInputs : CheckStart(p, Alice, t)
    \/ \E p \in Procs : CheckResolved(p)
    \/ \E p \in Procs, t \in TokenInputs : LogOut(p, Alice, t)
    \/ \E p \in Procs : Finish(p)
    \/ Tick

SpecLogins == InitSession /\ [][NextLogins]_vars

\* The same sessions, followed by login calls in other names than alice's that
\* submit the ids of the nonces alice was given and has not used.
AliceNonces == {uuid(5), uuid(6)}
Strangers == {Bob, Ghost}

NextStrangers ==
    \/ \E p \in Procs, u \in Strangers, h \in ClientProofs, n \in AliceNonces,
          c \in ClientNonces : LoginStart(p, u, h, n, c)
    \/ \E p \in Procs : LoginUserResolved(p)
    \/ \E p \in Procs : LoginNonceResolved(p)
    \/ \E p \in Procs : Finish(p)

SpecStrangers == InitSession /\ [][NextStrangers]_vars

\* ------------------------------------------------------------------------
\* Login attempts of alice with nonces and client nonces of different lengths.

\* Values the nonce generator returns and client nonces a request carries; the
\* decimal renderings of 1 followed by 23 and of 12 followed by 3 are both "123".
ProofNonces == {1, 12}
ProofClientNonces == {23, 3}

\* The proofs a client computes from a server nonce, a client nonce and alice's
\* password hash.
AliceProofs ==
    {hashSync(ProofMessage(s, c, UserDb[Alice].passwordHash)) :
        s \in ProofNonces, c \in ProofClientNonces}

NextProofs ==
    \/ \E p \in Procs, s \in ProofNonces : NonceStart(p, Alice, s)
    \/ \E p \in Procs : NonceSaltResolved(p)
    \/ \E p \in Procs, h \in AliceProofs, n \in issued, c \in ProofClientNonces :
          LoginStart(p, Alice, h, n, c)
    \/ \E p \in Procs : LoginUserResolved(p)
    \/ \E p \in Procs : LoginNonceResolved(p)
    \/ \E p \in Procs : Finish(p)

SpecProofs == Init /\ [][NextProofs]_vars

\* ------------------------------------------------------------------------
\* Start-up and reconnection.

\* The singleton a factory call reads and sets.
InstanceOf(c, k) ==
    IF k = "questCollectionConnectorInstance"
    THEN c.questConnectorInstance ELSE c.userConnectorInstance

\* questCollectionConnectorInstance / userCollectionConnectorInstance up to the
\* first await: the instance if there is one, else mongoConnectionSingleton,
\* which returns baseDb if it is set and else calls connect.
InstanceStart(k) ==
    /\ clients.call[k].pc = "idle"
    /\ clients' =
        IF InstanceOf(clients, k) # 0
        THEN [clients EXCEPT !.call[k] = [pc |-> "done", db |-> InstanceOf(clients, k)]]
        ELSE IF clients.baseDb # 0
        THEN [clients EXCEPT !.call[k] = [pc |-> "gotDb", db |-> clients.baseDb]]
        ELSE [clients EXCEPT !.opened = @ + 1,
                             !.call[k] = [pc |-> "connecting", db |-> clients.opened + 1]]
    /\ UNCHANGED <<store, proc, requests, uuids, issued, minted, quests, published, hist>>

\* await connect(...) resolves: mongoConnectionSingleton sets connectedClient
\* and baseDb and returns the handle.
ConnectResolved(k) ==
    /\ clients.call[k].pc = "connecting"
    /\ clients' = [clients EXCEPT !.connectedClient = clients.call[k].db,
                                  !.baseDb = clients.call[k].db,
                                  !.call[k].pc = "gotDb"]
    /\ UNCHANGED <<store, proc, requests, uuids, issued, minted, quests, published, hist>>

\* await mongoConnectionSingleton(config) resolves: the factory builds the
\* connector on the handle it got, stores it and returns it.
InstanceFinish(k) ==
    /\ clients.call[k].pc = "gotDb"
    /\ clients' =
        IF k = "questCollectionConnectorInstance"
        THEN [clients EXCEPT !.questConnectorInstance = clients.call[k].db,
                             !.call[k].pc = "done"]
        ELSE [clients EXCEPT !.userConnectorInstance = clients.call[k].db,
                             !.call[k].pc = "done"]
    /\ UNCHANGED <<store, proc, requests, uuids, issued, minted, quests, published, hist>>

\* redisConnectionSingleton: the delay between reconnection attempts, in ms.
reconnectTime == 10000

\* What retry_strategy returns: a delay, or an Error.
Delay(ms) == [error |-> FALSE, delay |-> ms]
GiveUp == [error |-> TRUE, delay |-> 0]

\* As retry_strategy, never giving up.
retry_strategyForever(options) == Delay(reconnectTime)

\* The retry_strategy option redisConnectionSingleton passes to createClient.
retry_strategy(options) ==
    IF options.attempt > 12 THEN GiveUp ELSE Delay(reconnectTime)

\* redisConnectionSingleton creates the client, which starts to connect.
RedisCreate ==
    /\ clients.redisConnection.state = "none"
    /\ clients' = [clients EXCEPT !.redisConnection.state = "connecting"]
    /\ UNCHANGED <<store, proc, requests, uuids, issued, minted, quests, published, hist>>

\* The connection is established: the driver resets its retry counters.
RedisReady ==
    /\ clients.redisConnection.state = "connecting"
    /\ clients' = [clients EXCEPT !.redisConnection =
                        [NoRedisConnection EXCEPT !.state = "ready"]]
    /\ UNCHANGED <<store, proc, requests, uuids, issued, minted, quests, published, hist>>

\* The connection is lost or an attempt to connect fails: the driver asks
\* retry_strategy with the number of the attempt; on a delay it counts the
\* attempt and schedules a retry, on an Error it ends the client.
RedisConnectionGone ==
    /\ clients.redisConnection.state \in {"connecting", "ready"}
    /\ LET answer == retry_strategy([attempt |-> clients.redisConnection.attempts]) IN
        clients' =
            IF answer.error
            THEN [clients EXCEPT !.redisConnection.state = "ended"]
            ELSE [clients EXCEPT !.redisConnection.state = "waiting",
                                 !.redisConnection.retry_delay = answer.delay,
                                 !.redisConnection.attempts = @ + 1,
                                 !.redisConnection.retries = @ + 1]
    /\ UNCHANGED <<store, proc, requests, uuids, issued, minted, quests, published, hist>>

\* The retry timer fires: the driver connects again.
RedisRetry ==
    /\ clients.redisConnection.state = "waiting"
    /\ clients' = [clients EXCEPT !.redisConnection.state = "connecting"]
    /\ UNCHANGED <<store, proc, requests, uuids, issued, minted, quests, published, hist>>

InitClients ==
    /\ store = <<>>
    /\ proc = [p \in Procs |-> Idle]
    /\ requests = 0
    /\ uuids = 0
    /\ issued = {}
    /\ minted = {}
    /\ quests = <<>>
    /\ published = <<>>
    /\ clients = NoClients
    /\ hist = NoHist

NextClients ==
    \/ \E k \in InstanceCalls : InstanceStart(k)
    \/ \E k \in InstanceCalls : ConnectResolved(k)
    \/ \E k \in InstanceCalls : InstanceFinish(k)
    \/ RedisCreate
    \/ RedisReady
    \/ RedisConnectionGone
    \/ RedisRetry

SpecClients == InitClients /\ [][NextClients]_vars

\* ------------------------------------------------------------------------
\* The token ledger on its own, with names and tokens that contain ':'.

\* RedisAuthConnector.addOrRefreshLoginToken(username) with no token to refresh,
\* as the last line of a successful getAccessToken calls it: a new token is
\* stored for username and returned.
AddLoginToken(p, username) ==
    /\ Free(p)
    /\ uuids < Len(UuidAtoms)
    /\ LET token == uuid(uuids + 1)
           writes == <<addOrRefreshLoginToken(username, token)>> IN
        /\ store' = ExecuteAll(store, writes)
        /\ proc' = [proc EXCEPT ![p] =
                [Idle EXCEPT !.op = "issue", !.pc = "done", !.username = username,
                             !.token = token, !.result = "token", !.body = token,
                             !.writes = Len(writes)]]
        /\ uuids' = uuids + 1
        /\ minted' = minted \cup {token}
        /\ hist' = [hist EXCEPT !.age = RestartAll(@, writes),
                                !.legit = @ \cup {TokenKey(username, token)}]
    /\ requests' = requests + 1
    /\ UNCHANGED <<issued, quests, published, clients>>

\* The usernames of the calls, and the tokens the checks submit: the tokens
\* handed out, as they are and behind the end of a longer name.  Every call
\* keeps its slot, so that the slots are the record of the pairs in use.
KeyUsernames == {<<"a">>, <<"b">>, <<"a", ":", "b">>}
KeyTokens == minted \cup {<<"b", ":">> \o t : t \in minted} \cup {NeverIssued}

NextKeys ==
    \/ \E p \in Procs, u \in KeyUsernames : AddLoginToken(p, u)
    \/ \E p \in Procs, u \in KeyUsernames, t \in KeyTokens : CheckStart(p, u, t)
    \/ \E p \in Procs : CheckResolved(p)
    \/ \E p \in Procs, u \in KeyUsernames, t \in KeyTokens : LogOut(p, u, t)
    \/ Tick

SpecKeys == Init /\ [][NextKeys]_vars

\* ------------------------------------------------------------------------
\* Quests under way: alice asked for a nonce, logged in with it, posted a quest
\* and posted an objective to it; the four requests have been answered and no
\* time has passed.  (The messages of these requests carry -1 for a number.)
CrudCommands ==
    NonceWrites(uuid(1), 12) \o AccessTokenWrites("token", Alice, uuid(1), uuid(2))

CrudState ==
    /\ store = ExecuteAll(<<>>, CrudCommands)
    /\ proc = [p \in Procs |-> Idle]
    /\ uuids = 4
    /\ issued = {uuid(1)}
    /\ minted = {uuid(2)}
    /\ quests = pushObjective(insertOne(<<>>, NewQuest(uuid(3))), uuid(3),
                              NewObjective(uuid(4)))
    /\ published = pushAdd(pushAdd(<<>>, "QUEST", uuid(3), Null, -1),
                           "OBJECTIVE", uuid(3), uuid(4), -1)
    /\ clients = Serving
    /\ hist = [NoHist EXCEPT !.compared = {uuid(1)},
                             !.spent = {uuid(1)},
                             !.legit = {TokenKey(Alice, uuid(2))},
                             !.age = RestartAll(<<>>, CrudCommands),
                             !.values = [id \in {uuid(1)} |-> 12]]

\* The run goes on from there for MaxRequests - 1 requests.
InitCrud == CrudState /\ requests = 1

\* What the clients send to the quest routes: the ids of the quest and the
\* objective there are or ids of none, and update bodies with no property, with
\* one, and with a false flag.
QuestUpdates ==
    {NoBody,
     [NoBody EXCEPT !.has = {"name"}, !.name = "n1"],
     [NoBody EXCEPT !.has = {"description"}, !.description = "d1"],
     [NoBody EXCEPT !.has = {"visible"}, !.visible = FALSE]}
ObjectiveUpdates ==
    {NoBody,
     [NoBody EXCEPT !.has = {"text"}, !.text = "t1"],
     [NoBody EXCEPT !.has = {"completed"}, !.completed = TRUE],
     [NoBody EXCEPT !.has = {"completed"}, !.completed = FALSE]}

RouteRequest(route, questId, objectiveId, body) ==
    [route |-> route, questId |-> questId, objectiveId |-> objectiveId, body |-> body]

RouteRequests ==
    {RouteRequest("POST /", Null, Null, NoBody)}
    \cup {RouteRequest("POST /:questId/objectives", q, Null, NoBody) :
             q \in {uuid(3), NeverIssued}}
    \cup {RouteRequest("PUT /:questId", uuid(3), Null, b) : b \in QuestUpdates}
    \cup {RouteRequest("PUT /:questId", NeverIssued, Null, b) :
             b \in {x \in QuestUpdates : x.has = {"description"}}}
    \cup {RouteRequest("PUT /:questId/objectives/:objectiveId", uuid(3), uuid(4), b) :
             b \in ObjectiveUpdates}
    \cup {RouteRequest("PUT /:questId/objectives/:objectiveId", uuid(3), NeverIssued, b) :
             b \in {x \in ObjectiveUpdates : x.has = {"text"}}}
    \cup {RouteRequest("DELETE /:questId", q, Null, NoBody) :
             q \in {uuid(3), NeverIssued}}
    \cup {RouteRequest("DELETE /:questId/objectives/:objectiveId", uuid(3), o, NoBody) :
             o \in {uuid(4), NeverIssued}}

\* The requests that follow go to the routes that change quests, in alice's name
\* with her token.  There are no more of them than task slots, so each keeps
\* its slot and what it was answered stays on record.
NextCrud ==
    \/ \E p \in Procs, r \in RouteRequests :
          RouteStart(p, r.route, Alice, uuid(2), r.questId, r.objectiveId, r.body)
    \/ \E p \in Procs : CheckResolved(p)
    \/ \E p \in Procs : HandlerStart(p)
    \/ \E p \in Procs : HandlerSecond(p)
    \/ \E p \in Procs : HandlerRespond(p)

SpecCrud == InitCrud /\ [][NextCrud]_vars

\* The same quests, TickStep seconds later, followed by one kind of request to
\* each of the routes with and without a valid pair of headers: alice's token,
\* a token never issued, no token, no username.
InitGate ==
    /\ store = Aged(ExecuteAll(<<>>, CrudCommands))
    /\ proc = [p \in Procs |-> Idle]
    /\ requests = 1
    /\ uuids = 4
    /\ issued = {uuid(1)}
    /\ minted = {uuid(2)}
    /\ quests = pushObjective(insertOne(<<>>, NewQuest(uuid(3))), uuid(3),
                              NewObjective(uuid(4)))
    /\ published = pushAdd(pushAdd(<<>>, "QUEST", uuid(3), Null, -1),
                           "OBJECTIVE", uuid(3), uuid(4), -1)
    /\ clients = Serving
    /\ hist = [NoHist EXCEPT !.compared = {uuid(1)},
                             !.spent = {uuid(1)},
                             !.legit = {TokenKey(Alice, uuid(2))},
                             !.age = Elapse(RestartAll(<<>>, CrudCommands)),
                             !.values = [id \in {uuid(1)} |-> 12]]

GateRequests ==
    {r \in RouteRequests :
        /\ r.questId # NeverIssued /\ r.objectiveId # NeverIssued
        /\ r.body.has \in {{}, {"description"}, {"text"}}
        /\ r.body.has = {} <=> r.route \notin {"PUT /:questId",
                                               "PUT /:questId/objectives/:objectiveId"}}
GateHeaders ==
    {<<Alice, uuid(2)>>, <<Alice, NeverIssued>>, <<Alice, Null>>, <<Null, uuid(2)>>}

NextGate ==
    \/ \E p \in Procs, r \in GateRequests, h \in GateHeaders :
          RouteStart(p, r.route, h[1], h[2], r.questId, r.objectiveId, r.body)
    \/ \E p \in Procs : CheckResolved(p)
    \/ \E p \in Procs : HandlerStart(p)
    \/ \E p \in Procs : HandlerSecond(p)
    \/ \E p \in Procs : HandlerRespond(p)

SpecGate == InitGate /\ [][NextGate]_vars

\* ------------------------------------------------------------------------
\* Properties.

LoginDone(p) == proc[p].op = "login" /\ proc[p].pc = "done"
CheckDone(p) == proc[p].op = "check" /\ proc[p].pc = "done"
NonceDone(p) == proc[p].op = "nonce" /\ proc[p].pc = "done"
UserExists(p) == getUser(proc[p].username) # NoUser
ClassifiedErrors == {"NoUserFoundError", "NonceExpiredError", "AuthFailureError"}

\* C1: for every nonce id, at most one getAccessToken call observes it as present
\* and reaches the proof comparison, under every interleaving of the calls.
C1_AtMostOneComparison == hist.comparedTwice = {}

\* C2: a getAccessToken call for an existing user that starts after a call with
\* the same nonce id has returned a token or AuthFailureError fails with
\* NonceExpiredError, whatever proof and client nonce it submits.
C2_NoReuseAfterVerification ==
    \A p \in Procs :
        (LoginDone(p) /\ proc[p].late /\ UserExists(p))
            => proc[p].result = "NonceExpiredError"

\* C2 happens: a late call resubmits a proof that is correct for its user and
\* ends with NonceExpiredError.
C2_Witness ==
    \E p \in Procs, s \in NonceValues :
        /\ LoginDone(p) /\ proc[p].late /\ UserExists(p)
        /\ proc[p].serverNonceId \in issued
        /\ proc[p].clientPasswordHash =
              hashSync(ProofMessage(s, proc[p].clientNonce,
                                    getUser(proc[p].username).passwordHash))
        /\ proc[p].result = "NonceExpiredError"

\* C3: whenever getAccessToken has delivered NoUserFoundError, NonceExpiredError or
\* AuthFailureError for a nonce id, the key nonce:<id> is absent from the store.
C3_NonceGoneAtFailure ==
    \A p \in Procs :
        (LoginDone(p) /\ proc[p].result \in ClassifiedErrors)
            => NonceKey(proc[p].serverNonceId) \notin DOMAIN store

\* C4: a nonce request for a username without a directory record answers 404 and
\* has written nothing to the store.
C4_NoNonceForMissingUser ==
    \A p \in Procs :
        (NonceDone(p) /\ ~UserExists(p))
            => (proc[p].status = 404 /\ proc[p].writes = 0)

\* The proof a client computes from the nonce value the call read, the client
\* nonce it sends and the stored hash of its user.
CorrectProof(p) ==
    hashSync(ProofMessage(parseNumber(proc[p].reply.val), proc[p].clientNonce,
                          getUser(proc[p].username).passwordHash))

\* C5: getAccessToken for an existing user, with a nonce that is present and the
\* proof computed from its value, the client nonce and the stored hash, returns a
\* token T; and a validity check of (username, T) that immediately follows the
\* call that returned T returns true.
C5_RoundTrip ==
    \A p \in Procs :
        /\ (/\ LoginDone(p) /\ UserExists(p) /\ proc[p].reply.state = "ok"
            /\ proc[p].clientPasswordHash = CorrectProof(p))
              => (proc[p].result = "token" /\ proc[p].token \in minted)
        /\ (CheckDone(p) /\ proc[p].immediate) => proc[p].result = "true"

\* C5 happens: such a check has completed.
C5_Witness ==
    \E p \in Procs : CheckDone(p) /\ proc[p].immediate /\ proc[p].token \in minted

\* The token ledger: the loginToken keys of a store, with their lifetimes.
TokenLedger(s) == [k \in {x \in DOMAIN s : IsTokenKey(x)} |-> s[k]]

\* The step in which getAccessToken of slot p delivers a classified error.
FailsNow(p) ==
    /\ proc[p].op = "login" /\ proc[p].pc # "done"
    /\ proc'[p].pc = "done" /\ proc'[p].result \in ClassifiedErrors

\* C6: in every state, every loginToken key of the store is the key of a
\* getAccessToken call for that username that found its user, found its nonce and
\* matched the proof; and the step of a call that ends in NoUserFoundError,
\* NonceExpiredError or AuthFailureError leaves the token ledger as it was.
C6_TokensOnlyFromLogins ==
    /\ [](\A key \in DOMAIN store : IsTokenKey(key) => key \in hist.legit)
    /\ [][\A p \in Procs : FailsNow(p) => TokenLedger(store') = TokenLedger(store)]_vars

\* C6 happens: a login token is in the store.
C6_Witness ==
    /\ \E key \in DOMAIN store : IsTokenKey(key)
    /\ \E p \in Procs : LoginDone(p) /\ proc[p].result = "AuthFailureError"

\* C7: getAccessToken for a username without a directory record fails with
\* NoUserFoundError and deletes the submitted nonce: no call that starts later
\* with the same nonce id finds it.
C7_MissingUserSpendsNonce ==
    \A p \in Procs :
        /\ (LoginDone(p) /\ ~UserExists(p))
              => /\ proc[p].result = "NoUserFoundError"
                 /\ NonceKey(proc[p].serverNonceId) \notin DOMAIN store
        /\ (proc[p].op = "login" /\ proc[p].lateNoUser) => proc[p].reply.state = "nil"

\* C7 happens: a nonce that was in the store was spent by a call for a missing
\* user, and a later call for an existing user with that id has completed.
C7_Witness ==
    \E p \in Procs :
        /\ LoginDone(p) /\ proc[p].lateNoUser /\ UserExists(p)
        /\ proc[p].serverNonceId \in hist.tookNoUser

\* C8: getAccessToken for an existing user with a nonce id that is absent from the
\* store fails with NonceExpiredError and issues no write command.
C8_AbsentNonceNoWrite ==
    \A p \in Procs :
        (LoginDone(p) /\ UserExists(p) /\ proc[p].reply.state = "nil")
            => (proc[p].result = "NonceExpiredError" /\ proc[p].writes = 0)

\* C8 happens: for a nonce id that was issued and is gone, and for one never issued.
C8_Witness ==
    \E p \in Procs :
        /\ LoginDone(p) /\ UserExists(p) /\ proc[p].reply.state = "nil"
        /\ proc[p].serverNonceId \in issued

\* C9: when the store fails on the nonce lookup of a getAccessToken call, the call
\* ends in an unclassified error (500), not in one of the three classified
\* errors.  Stated for the calls that await the lookup (the user exists) and
\* whose nonce is in the store, where the classified answer is also untrue.
C9_NonceLookupFailurePropagates ==
    \A p \in Procs :
        (/\ LoginDone(p) /\ UserExists(p) /\ proc[p].reply.state = "err"
         /\ NonceKey(proc[p].serverNonceId) \in DOMAIN store)
            => (proc[p].result = "Error" /\ proc[p].status = 500)

\* C10: when the store fails on the token lookup of
\* checkLoginValidityAndResetExpiration, the check does not answer false (403).
\* Stated for the checks whose token is in the store, where false is also untrue.
C10_TokenLookupFailurePropagates ==
    \A p \in Procs :
        (/\ CheckDone(p) /\ proc[p].reply.state = "err"
         /\ TokenKey(proc[p].username, proc[p].token) \in DOMAIN store)
            => (proc[p].result # "false" /\ proc[p].status # 403)

\* C11: a validity check of (u, T) that starts after logOut(u, T) was applied
\* while no check of (u, T) was running returns false; so does every check of a
\* pair (u, T) that no login has issued, logged out or not.
C11_LoggedOutStaysOut ==
    \A p \in Procs :
        (/\ CheckDone(p)
         /\ \/ proc[p].afterLogOut
            \/ TokenKey(proc[p].username, proc[p].token) \notin hist.legit)
            => proc[p].result = "false"

\* C11 happens: a token that a login had issued and that was in the store was
\* logged out, and a later check of it has completed.
C11_Witness ==
    \E p, q \in Procs :
        /\ CheckDone(p) /\ proc[p].afterLogOut
        /\ TokenKey(proc[p].username, proc[p].token) \in hist.legit
        /\ proc[q].op = "logout" /\ proc[q].had
        /\ proc[q].username = proc[p].username /\ proc[q].token = proc[p].token

LogOutDone(p) == proc[p].op = "logout" /\ proc[p].pc = "done"

\* The step in which slot p serves a logout request.
LogsOutNow(p) == proc[p].op = "idle" /\ proc'[p].op = "logout"

\* C12: every logout request, whether or not its token key exists, is answered
\* with 202 and no error in the step that receives it; after that step the key is
\* absent, logOut applied once more would leave the store as it is, and a logOut
\* of a key that was absent leaves the store as it was.
C12_LogOutIdempotent ==
    /\ [](\A p \in Procs : proc[p].op = "logout" =>
            (LogOutDone(p) /\ proc[p].status = 202 /\ proc[p].result = "none"))
    /\ [][\A p \in Procs : LogsOutNow(p) =>
            LET key == TokenKey(proc'[p].username, proc'[p].token)
                again == LogOutWrites(proc'[p].username, proc'[p].token) IN
            /\ key \notin DOMAIN store'
            /\ ExecuteAll(store', again) = store'
            /\ key \notin DOMAIN store => store' = store]_vars

\* C12 happens: a live token was logged out, and then logged out again.
C12_Witness ==
    \E p, q \in Procs :
        /\ LogOutDone(p) /\ proc[p].had /\ LogOutDone(q) /\ ~proc[q].had
        /\ proc[q].username = proc[p].username /\ proc[q].token = proc[p].token

\* The step in which the check of slot p finds its token valid.
RefreshesNow(p) ==
    /\ proc[p].op = "check" /\ proc[p].pc = "awaitValid"
    /\ proc'[p].pc = "done" /\ proc'[p].result = "true"

\* C13: the step of a check that finds (u, T) valid stores the key of (u, T)
\* with a remaining lifetime of 1800 s, leaves every other key as it was and hands
\* out no new token; and a check of (u, T) that starts less than 1800 s after the
\* last issue or refresh of (u, T), with no logout since, returns true.
C13_RefreshKeepsToken ==
    /\ [][\A p \in Procs : RefreshesNow(p) =>
            LET key == TokenKey(proc[p].username, proc[p].token) IN
            /\ DOMAIN store' = DOMAIN store \cup {key}
            /\ store'[key] = [val |-> LoggedIn, ttl |-> 1800]
            /\ \A k \in DOMAIN store \ {key} : store'[k] = store[k]
            /\ minted' = minted /\ uuids' = uuids]_vars
    /\ [](\A p \in Procs :
            (CheckDone(p) /\ proc[p].age >= 0 /\ proc[p].age < 1800)
                => proc[p].result = "true")

\* C13 happens: a check refreshed a token, time passed, and a second check of the
\* same token, started less than 1800 s after that refresh, has returned true.
C13_Witness ==
    \E p \in Procs :
        /\ CheckDone(p) /\ proc[p].again /\ proc[p].result = "true"
        /\ proc[p].age > 0 /\ proc[p].age < 1800 /\ proc[p].token \in minted

\* C14: a token key whose last SETEX is 1800 s or more ago, with no DEL since, is
\* not in the store; a check of it that starts then returns false and issues no
\* write command, so that the checks after it find the same.
C14_IdleTokenExpires ==
    /\ \A key \in DOMAIN hist.age :
            (IsTokenKey(key) /\ hist.age[key] >= 1800) => key \notin DOMAIN store
    /\ \A p \in Procs :
            (CheckDone(p) /\ proc[p].age >= 1800)
                => (proc[p].result = "false" /\ proc[p].writes = 0)

\* C14 happens: a token that a login had issued was left alone for 1800 s; a check
\* of it has failed, and a check that started after that answer has completed.
C14_Witness ==
    \E p \in Procs :
        /\ CheckDone(p) /\ proc[p].age >= 1800 /\ proc[p].afterDenial
        /\ TokenKey(proc[p].username, proc[p].token) \in hist.legit

\* C15: a nonce key whose SETEX is 120 s or more ago, with no DEL since, is not in
\* the store; a getAccessToken call for an existing user that reads it then fails
\* with NonceExpiredError, whatever proof it submits.
C15_UnusedNonceExpires ==
    /\ \A key \in DOMAIN hist.age :
            (~IsTokenKey(key) /\ hist.age[key] >= 120) => key \notin DOMAIN store
    /\ \A p \in Procs :
            (LoginDone(p) /\ UserExists(p) /\ proc[p].age >= 120)
                => proc[p].result = "NonceExpiredError"

\* C15 happens: a call with the proof that is correct for an issued nonce read it
\* 120 s or more after its issue.
C15_Witness ==
    \E p \in Procs, s \in NonceValues :
        /\ LoginDone(p) /\ UserExists(p) /\ proc[p].age >= 120
        /\ proc[p].serverNonceId \in issued
        /\ proc[p].clientPasswordHash =
              hashSync(ProofMessage(s, proc[p].clientNonce,
                                    getUser(proc[p].username).passwordHash))

\* C16: a validity check returns true exactly when the key of (u, T) was in the
\* store at the time of its read, and a check that returns false has issued no
\* write command.
C16_CheckReadsPresence ==
    \A p \in Procs :
        CheckDone(p) =>
            /\ (proc[p].result = "true") = proc[p].had
            /\ proc[p].result = "false" => proc[p].writes = 0

\* The step in which getAccessToken of slot p returns a token.
MintsNow(p) ==
    /\ proc[p].op = "login" /\ proc[p].pc = "awaitNonce"
    /\ proc'[p].pc = "done" /\ proc'[p].result = "token"

\* C17: the step of a getAccessToken call that returns a token mints one that no
\* call returned before and leaves every token key of the store as it was; a
\* logout step leaves every token key other than its own as it was; and every
\* token key set less than 1800 s ago and not deleted since is in the store,
\* whatever happened to the other keys.
C17_TokensIndependent ==
    /\ [][\A p \in Procs : MintsNow(p) =>
            /\ proc'[p].token \notin minted
            /\ TokenKey(proc[p].username, proc'[p].token) \in DOMAIN store' \ DOMAIN store
            /\ \A k \in DOMAIN store : IsTokenKey(k) =>
                    (k \in DOMAIN store' /\ store'[k] = store[k])]_vars
    /\ [][\A p \in Procs : LogsOutNow(p) =>
            \A k \in DOMAIN store :
                (IsTokenKey(k) /\ k # TokenKey(proc'[p].username, proc'[p].token))
                    => (k \in DOMAIN store' /\ store'[k] = store[k])]_vars
    /\ [](\A k \in DOMAIN hist.age :
            (IsTokenKey(k) /\ hist.age[k] < 1800)
                => (k \in DOMAIN store /\ store[k].val = LoggedIn))

\* C17 happens: alice, holding a token, logged in again; the first token was then
\* logged out while the second one and the token of bob were in the store, and
\* both are there still.
C17_Witness ==
    \E p, q \in Procs :
        /\ LoginDone(p) /\ proc[p].result = "token"
        /\ LogOutDone(q) /\ proc[q].had /\ proc[q].username = proc[p].username
        /\ TokenKey(proc[p].username, proc[p].token) \in proc[q].others \cap DOMAIN store
        /\ \E k \in proc[q].others \cap DOMAIN store : k \in hist.legit /\ k[3] = "bob"

\* The step in which slot p takes a nonce request.
IssuesNow(p) == proc[p].op = "idle" /\ proc'[p].op = "nonce"

\* The step in which getAccessToken of slot p deletes its nonce.
SpendsNow(p) ==
    /\ proc[p].op = "login" /\ proc[p].pc # "done"
    /\ proc'[p].pc = "done" /\ proc'[p].writes > 0

NonceLedger(s) == {k \in DOMAIN s : ~IsTokenKey(k)}

\* C18: a nonce request stores its nonce under an id that no request was given
\* before and leaves the other nonces as they were; the nonce requests in flight
\* have distinct ids; a nonce set less than 120 s ago and not deleted since is in
\* the store; a getAccessToken call that deletes its nonce leaves the other
\* nonces as they were; and a call for an existing user that reads a nonce and
\* submits the proof for it returns a token.
C18_NoncesIndependent ==
    /\ [][\A p \in Procs : IssuesNow(p) =>
            LET key == NonceKey(proc'[p].serverNonceId) IN
            /\ proc'[p].serverNonceId \notin issued
            /\ key \in DOMAIN store' \ DOMAIN store
            /\ \A k \in NonceLedger(store) : k \in DOMAIN store' /\ store'[k] = store[k]]_vars
    /\ [](\A p, q \in Procs :
            (p # q /\ proc[p].op = "nonce" /\ proc[q].op = "nonce")
                => proc[p].serverNonceId # proc[q].serverNonceId)
    /\ [](\A k \in DOMAIN hist.age :
            (~IsTokenKey(k) /\ hist.age[k] < 120) => k \in DOMAIN store)
    /\ [][\A p \in Procs : SpendsNow(p) =>
            \A k \in NonceLedger(store) \ {NonceKey(proc[p].serverNonceId)} :
                k \in DOMAIN store' /\ store'[k] = store[k]]_vars
    /\ [](\A p \in Procs :
            (/\ LoginDone(p) /\ UserExists(p) /\ proc[p].reply.state = "ok"
             /\ proc[p].clientPasswordHash = CorrectProof(p))
                => proc[p].result = "token")

\* C18 happens: of two nonces issued for alice, one was used up by a call, and a
\* call that started after that has returned a token with the other.
C18_Witness ==
    \E p, q \in Procs :
        /\ LoginDone(p) /\ proc[p].writes > 0 /\ proc[p].reply.state = "ok"
        /\ LoginDone(q) /\ proc[q].afterUse /\ proc[q].result = "token"
        /\ proc[p].serverNonceId # proc[q].serverNonceId
        /\ {proc[p].serverNonceId, proc[q].serverNonceId} \subseteq {uuid(5), uuid(6)}

\* The step in which the nonce request of slot p is answered.
AnswersNonceNow(p) ==
    proc[p].op = "nonce" /\ proc[p].pc = "awaitSalt" /\ proc'[p].pc = "done"

\* C19: neither step of a nonce request changes a token key or its lifetime; and
\* as long as the key of a nonce is in the store, getServerNonce reads back the
\* value that retrieveNonceForLogin returned with its id, in the store and in
\* every reply a getAccessToken call holds.
C19_NonceRequestFrame ==
    /\ [][\A p \in Procs : (IssuesNow(p) \/ AnswersNonceNow(p))
                => TokenLedger(store') = TokenLedger(store)]_vars
    /\ [](\A id \in DOMAIN hist.values :
            NonceKey(id) \in DOMAIN store
                => getServerNonce(Get(store, NonceKey(id), FALSE)) = <<hist.values[id]>>)
    /\ [](\A p \in Procs :
            (/\ proc[p].op = "login" /\ proc[p].reply.state = "ok"
             /\ proc[p].serverNonceId \in DOMAIN hist.values)
                => getServerNonce(proc[p].reply) = <<hist.values[proc[p].serverNonceId]>>)

\* C19 happens: a nonce request was answered while login tokens were in the store,
\* and a getAccessToken call has read the nonce it returned.
C19_Witness ==
    \E p, q \in Procs :
        /\ NonceDone(p) /\ proc[p].status = 200
        /\ proc[q].op = "login" /\ proc[q].reply.state = "ok"
        /\ proc[q].serverNonceId = proc[p].serverNonceId
        /\ \E k \in DOMAIN store : IsTokenKey(k)

\* C20: a quest handler runs only for requests whose (x-username, x-auth-token)
\* pair was a key of the store when the request was examined: both on the routes
\* where verifyAuthorization has called next() and on the others.
C20_QuestsGated ==
    \A p \in Procs :
        /\ (CheckDone(p) /\ proc[p].status = 0) => proc[p].had
        /\ proc[p].op = "quests" => proc[p].had

\* The outcomes of getAccessToken.
LoginOutcomes == {"token"} \cup ClassifiedErrors

\* C21: every answered login request carries 201 for a token, 404 for
\* NoUserFoundError, 400 for NonceExpiredError and 403 for AuthFailureError; the
\* four statuses are pairwise distinct, none of them is 500, and an error of any
\* other kind is answered with 500.
C21_LoginStatusClasses ==
    /\ \A p \in Procs : LoginDone(p) =>
            /\ proc[p].result = "token" => proc[p].status = 201
            /\ proc[p].result = "NoUserFoundError" => proc[p].status = 404
            /\ proc[p].result = "NonceExpiredError" => proc[p].status = 400
            /\ proc[p].result = "AuthFailureError" => proc[p].status = 403
            /\ proc[p].result \notin LoginOutcomes => proc[p].status = 500
    /\ \A r1, r2 \in LoginOutcomes : LoginStatus(r1) = LoginStatus(r2) => r1 = r2
    /\ \A r \in LoginOutcomes : LoginStatus(r) # 500
    /\ LoginStatus("Error") = 500

\* C21 happens: a login was refused for its proof, and a second one for the nonce
\* the first had used up.
C21_Witness ==
    \E p, q \in Procs :
        /\ LoginDone(p) /\ proc[p].result = "AuthFailureError" /\ proc[p].status = 403
        /\ LoginDone(q) /\ proc[q].result = "NonceExpiredError" /\ proc[q].status = 400
        /\ proc[q].late /\ proc[q].serverNonceId = proc[p].serverNonceId

\* The sequence part occurs in the sequence whole.
Contains(whole, part) ==
    \E i \in 1..(Len(whole) - Len(part) + 1) : SubSeq(whole, i, i + Len(part) - 1) = part

\* C22: the body of no answered nonce or login request, whatever its outcome,
\* contains the stored passwordHash of a user; the nonce request returns the
\* nonce id, the nonce value and the salt, and a login returns the token.
C22_NoHashInResponses ==
    \A p \in Procs :
        /\ proc[p].pc = "done" =>
                \A u \in DOMAIN UserDb : ~Contains(proc[p].body, UserDb[u].passwordHash)
        /\ (NonceDone(p) /\ proc[p].status = 200) =>
                proc[p].body = proc[p].serverNonceId \o toString(proc[p].serverNonce)
                                  \o UserDb[proc[p].username].passwordSalt
        /\ (LoginDone(p) /\ proc[p].status = 201) => proc[p].body = proc[p].token
        /\ (LoginDone(p) /\ proc[p].status # 201) => proc[p].body = Null

\* C22 happens: a nonce request and a login of the same user have been answered
\* with 200 and 201.
C22_Witness ==
    \E p, q \in Procs :
        /\ NonceDone(p) /\ proc[p].status = 200
        /\ LoginDone(q) /\ proc[q].status = 201 /\ proc[q].username = proc[p].username

\* The routes that change quests, the channel the messages of a route belong on
\* and the level they are tagged with.
MutatingRoutes == QuestRoutes \ {"GET /"}
ChannelOf(route) ==
    IF route \in {"POST /", "POST /:questId/objectives"} THEN "new-quests"
    ELSE IF route \in {"PUT /:questId", "PUT /:questId/objectives/:objectiveId"}
    THEN "quest-updates" ELSE "removed-quests"
LevelOf(route) ==
    IF route \in {"POST /", "PUT /:questId", "DELETE /:questId"}
    THEN "QUEST" ELSE "OBJECTIVE"
PublishedBy(p) == SelectSeq(published, LAMBDA m : m.by = proc[p].call.reqNo)
Answered(p) == proc[p].call.route \in MutatingRoutes /\ proc[p].pc = "done"
ReportedSuccess(p) == proc[p].call.documentExisted /\ proc[p].call.updateSucceeded

\* C23: when a request that changes a quest or an objective has been answered
\* and the database reported its operation successful, exactly one message of
\* that request has been published, on the channel of the operation (add:
\* new-quests, update: quest-updates, delete: removed-quests) and tagged with
\* its level (quest or objective); no request ever has two messages.
C23_OneMessagePerMutation ==
    \A p \in Procs :
        /\ Len(PublishedBy(p)) <= 1
        /\ Answered(p) /\ ReportedSuccess(p) =>
              /\ proc[p].status \in {201, 202}
              /\ Len(PublishedBy(p)) = 1
              /\ PublishedBy(p)[1].channel = ChannelOf(proc[p].call.route)
              /\ PublishedBy(p)[1].type = LevelOf(proc[p].call.route)

\* C23 witness: an update of a quest and the removal of an objective have both
\* been answered 202, each with its message published.
C23_Witness ==
    \E p, q \in Procs :
        /\ Answered(p) /\ proc[p].call.route = "PUT /:questId" /\ proc[p].status = 202
        /\ Answered(q) /\ proc[q].call.route = "DELETE /:questId/objectives/:objectiveId"
        /\ proc[q].status = 202
        /\ Len(PublishedBy(p)) = 1 /\ Len(PublishedBy(q)) = 1

\* C24: when updateQuest has found the quest and the update carries none of
\* name, description, questType, sourceRegion, visible, it raises
\* EmptyUpdateError: the request is answered then, its only database operation
\* was the lookup, and the collection is as it was.
C24_EmptyQuestUpdateRaises ==
    [][\A p \in Procs :
          /\ proc[p].call.route = "PUT /:questId" /\ proc[p].pc = "second"
          /\ proc[p].call.found # <<>>
          /\ proc[p].call.update.has \cap
                {"name", "description", "questType", "sourceRegion", "visible"} = {}
          /\ proc'[p] # proc[p]
          => /\ proc'[p].result = "EmptyUpdateError"
             /\ proc'[p].pc = "done"
             /\ proc'[p].call.dbOps = <<"findOne">>
             /\ quests' = quests]_vars

\* C24 witness: an update with no property, of a quest that was found, has been
\* answered with EmptyUpdateError, and the quest is still stored as it was found.
C24_Witness ==
    \E p \in Procs :
        /\ proc[p].call.route = "PUT /:questId" /\ proc[p].pc = "done"
        /\ proc[p].call.found # <<>> /\ proc[p].call.update.has = {}
        /\ proc[p].result = "EmptyUpdateError" /\ proc[p].status = 400
        /\ findOne(quests, proc[p].call.questId) = proc[p].call.found

\* C25: when updateObjective is called with an update that carries neither text
\* nor completed, it raises EmptyUpdateError before it sends any operation to
\* the database, and the collection is as it was.
C25_EmptyObjectiveUpdateRaises ==
    [][\A p \in Procs :
          /\ proc[p].call.route = "PUT /:questId/objectives/:objectiveId"
          /\ proc[p].pc = "handler"
          /\ proc[p].call.update.has \cap {"text", "completed"} = {}
          /\ proc'[p] # proc[p]
          => /\ proc'[p].result = "EmptyUpdateError"
             /\ proc'[p].pc = "done"
             /\ proc'[p].call.dbOps = <<>>
             /\ quests' = quests]_vars

\* C25 witness: an update with no property, of an objective that is stored, has
\* been answered with EmptyUpdateError without a database operation.
C25_Witness ==
    \E p \in Procs :
        /\ proc[p].call.route = "PUT /:questId/objectives/:objectiveId"
        /\ proc[p].pc = "done" /\ proc[p].call.update.has = {}
        /\ proc[p].result = "EmptyUpdateError" /\ proc[p].status = 400
        /\ proc[p].call.dbOps = <<>>
        /\ countObjective(quests, proc[p].call.questId, proc[p].call.objectiveId) = 1

\* C26: a validity check of (u, T) that ends after a logout has deleted the key
\* of (u, T) does not create the key again: if the last command on the key of
\* an issued token was the DEL of a logout when the check gets its answer, the
\* key is absent after the check has gone on.
C26_LogOutWinsRace ==
    [][\A p \in Procs :
          LET key == TokenKey(proc[p].username, proc[p].token) IN
          /\ proc[p].op = "check" /\ proc[p].pc = "awaitValid"
          /\ proc'[p].pc # "awaitValid"
          /\ key \in hist.legit /\ KeyAge(key) = -1
          => key \notin DOMAIN store']_vars

\* C27: a nonce that was issued for alice is used or deleted only by login
\* calls for alice: while the only login calls are for other usernames, with or
\* without a directory record, and no time passes, the nonces issued for alice
\* stay in the store and no call that submitted one of their ids returns a
\* token.
C27_NonceBoundToUsername ==
    /\ \A id \in AliceNonces : NonceKey(id) \in DOMAIN store
    /\ \A p \in Procs :
          LoginDone(p) /\ proc[p].serverNonceId \in AliceNonces
          => proc[p].username # Alice /\ proc[p].result # "token"

\* C28: on the six routes that change quests, a handler is at work, has sent a
\* database operation or has published only for a request that carried both
\* headers and whose validity check returned true on a key that was in the
\* store; a request without a header is answered 400 and one with an invalid
\* token 403, with no database operation and no message; and every request
\* whose check returned true has sent the refresh, after which the token has
\* its full lifetime again.
C28_MutationsGated ==
    \A p \in Procs :
        proc[p].call.route \in MutatingRoutes =>
            LET r == proc[p]
                accepted == /\ r.username # Null /\ r.token # Null
                            /\ r.result \in {"true", "EmptyUpdateError"} /\ r.had
                            /\ r.writes = 1 IN
            /\ (r.pc \in {"handler", "second", "respond"} \/ r.call.dbOps # <<>>
                 \/ PublishedBy(p) # <<>>) => accepted
            /\ (r.username = Null \/ r.token = Null) =>
                  r.pc = "done" /\ r.status = 400 /\ r.reply = NoReply
            /\ r.result = "false" => r.pc = "done" /\ r.status = 403 /\ ~r.had
            /\ r.writes = 1 =>
                  /\ KeyAge(TokenKey(r.username, r.token)) = 0
                  /\ store[TokenKey(r.username, r.token)].ttl =
                         DEFAULT_LOGIN_TOKEN_EXPIRATION_TIME

\* C28 witness: a request with alice's token, whose key had been in the store
\* for TickStep seconds, has removed a quest and published the removal, and a
\* request to the same route with a token never issued has been answered 403
\* after it, with the collection as the first left it.
C28_Witness ==
    \E p, q \in Procs :
        /\ Answered(p) /\ proc[p].call.route = "DELETE /:questId" /\ proc[p].status = 202
        /\ proc[p].age = TickStep /\ Len(PublishedBy(p)) = 1
        /\ Answered(q) /\ proc[q].call.route = "DELETE /:questId" /\ proc[q].status = 403
        /\ proc[q].token = NeverIssued /\ proc[q].call.reqNo > proc[p].call.reqNo
        /\ quests = <<>> /\ Len(published) = 3

\* C29: a login call for a username without a directory record ends with
\* NoUserFoundError (404) whatever the store answered for the nonce id, absent
\* or present; NonceExpiredError is the outcome only of calls whose user exists.
C29_UserCheckFirst ==
    \A p \in Procs :
        LoginDone(p) =>
            /\ ~UserExists(p) =>
                  proc[p].result = "NoUserFoundError" /\ proc[p].status = 404
            /\ proc[p].result = "NonceExpiredError" => UserExists(p)

\* C29 witness: two calls for a username without a record have ended with
\* NoUserFoundError, one with a nonce id absent from the store and one with the
\* id of a nonce that was there.
C29_Witness ==
    \E p, q \in Procs :
        /\ LoginDone(p) /\ ~UserExists(p) /\ proc[p].reply.state = "nil"
        /\ proc[p].result = "NoUserFoundError"
        /\ LoginDone(q) /\ ~UserExists(q) /\ proc[q].reply.state = "ok"
        /\ proc[q].result = "NoUserFoundError"

\* The (username, token) pairs that hold a token: it was handed out for that
\* username (a check refreshes only a pair it found valid).
HeldPairs ==
    {<<proc[q].username, proc[q].token>> : q \in {x \in Procs : proc[x].op = "issue"}}
PairOf(p) == <<proc[p].username, proc[p].token>>
LedgerCalls == {"issue", "check", "logout"}

\* C30: two calls on the token ledger with different (username, token) pairs
\* never use the same store key, no token key is a nonce key, and a validity
\* check returns true only for a pair whose token was handed out for exactly
\* that username, whatever characters the strings contain.
C30_KeysInjective ==
    \A p, q \in Procs :
        /\ (proc[p].op \in LedgerCalls /\ proc[q].op \in LedgerCalls
             /\ PairOf(p) # PairOf(q))
              => TokenKey(proc[p].username, proc[p].token)
                   # TokenKey(proc[q].username, proc[q].token)
        /\ proc[p].op \in LedgerCalls
              => \A id \in issued \cup minted \cup {NeverIssued} :
                     TokenKey(proc[p].username, proc[p].token) # NonceKey(id)
        /\ (CheckDone(p) /\ proc[p].result = "true") => PairOf(p) \in HeldPairs

\* C31: a login of alice returns a token only if the proof it submitted was
\* computed for exactly the value of the server nonce it names and the client
\* nonce it carries: a proof computed for any other pair of server nonce and
\* client nonce with the same password hash is rejected, also when the digits
\* of the two pairs concatenate to the same string.
C31_ProofBoundToTriple ==
    \A p \in Procs :
        (proc[p].op = "login" /\ proc[p].pc = "done" /\ proc[p].result = "token")
        => \A s \in ProofNonces, c \in ProofClientNonces :
              proc[p].clientPasswordHash
                    = hashSync(ProofMessage(s, c, UserDb[Alice].passwordHash))
              => s = hist.values[proc[p].serverNonceId] /\ c = proc[p].clientNonce

\* C32: every message on new-quests, quest-updates or removed-quests was
\* published by a request whose database write took effect on an entity that
\* existed: the write of that request inserted, matched, deleted or modified one
\* stored document; no request whose write found nothing has published.
C32_PublishedOnlyIfApplied ==
    \A p \in Procs :
        (proc[p].call.route \in MutatingRoutes /\ Len(PublishedBy(p)) > 0)
        => proc[p].call.n = 1

\* C33: once addObjective has returned documentExisted = true, its $push has
\* appended the objective to a stored quest; so no request to
\* POST /:questId/objectives, however a deleteQuest of the same id interleaves
\* with it, is answered 201 with an add notification while its $push matched no
\* stored quest.
C33_AddObjectiveAppended ==
    \A p \in Procs :
        (/\ proc[p].call.route = "POST /:questId/objectives"
         /\ proc[p].pc \in {"respond", "done"}
         /\ proc[p].call.documentExisted)
        => proc[p].call.n = 1

\* C34: the replaceOne of updateQuest changes only the fields the update names:
\* the stored quest after it is the stored quest before it with those fields
\* set, so whatever another request committed between the lookup and the
\* replacement (an added, updated or removed objective, another update of the
\* quest) is still there.
C34_UpdateQuestKeepsOtherChanges ==
    [][\A p \in Procs :
          (/\ proc[p].call.route = "PUT /:questId"
           /\ proc[p].pc = "second" /\ proc'[p].pc = "respond"
           /\ proc[p].call.questId \in DOMAIN quests)
          => quests' = [quests EXCEPT ![proc[p].call.questId] =
                            UpdatedQuest(@, proc[p].call.update)]]_vars

\* C35: at most one database connection is opened: however the two factory
\* calls of start-up interleave, connect is called at most once, and when both
\* have returned, the quest connector and the user connector are built on the
\* same Db handle.
C35_OneConnection ==
    /\ clients.opened <= 1
    /\ (\A k \in InstanceCalls : clients.call[k].pc = "done")
          => clients.questConnectorInstance = clients.userConnectorInstance

\* C38: every retry the redis client schedules has a delay of 10 seconds
\* (10000 ms); retries are scheduled for attempts 1 to 12 only, so there are
\* never more than 12 since the connection was last ready; and the client ends
\* with an error exactly on the failure that follows the 12th retry, after
\* which no retry is scheduled.
C38_RetryBounded ==
    LET r == clients.redisConnection IN
        /\ r.retries <= 12
        /\ r.attempts = r.retries + 1
        /\ r.state = "waiting" => r.retry_delay = 10000 /\ r.retries \in 1..12
        /\ r.state = "ended" => r.retries = 12
        /\ r.state = "ready" => r.retries = 0

\* C38 witness: twelve retries have failed and the client has ended.
C38_Witness ==
    /\ clients.redisConnection.state = "ended"
    /\ clients.redisConnection.retries = 12

\* The fields of a quest an update can set, and those of an objective.
QuestUpdateFields == {"name", "description", "questType", "sourceRegion", "visible"}
ObjectiveUpdateFields == {"text", "completed"}

\* C36: updateQuest on a quest it has found raises EmptyUpdateError exactly
\* when the update supplies none of name, description, questType, sourceRegion,
\* visible; an update that supplies only a name is applied.
C36_EmptyQuestUpdateIff ==
    \A p \in Procs :
        (/\ proc[p].call.route = "PUT /:questId"
         /\ proc[p].pc \in {"respond", "done"}
         /\ proc[p].call.found # <<>>)
        => (proc[p].result = "EmptyUpdateError"
              <=> proc[p].call.update.has \cap QuestUpdateFields = {})

\* C37: updateObjective raises EmptyUpdateError exactly when the update
\* supplies neither text nor completed; an update that supplies
\* completed = false is carried out, and the objective it matches is stored
\* with completed = false afterwards.
C37_EmptyObjectiveUpdateIff ==
    [][\A p \in Procs :
          proc[p].call.route = "PUT /:questId/objectives/:objectiveId" =>
            /\ (proc[p].pc = "handler" /\ proc'[p].pc # "handler")
                  => (proc'[p].result = "EmptyUpdateError"
                        <=> proc[p].call.update.has \cap ObjectiveUpdateFields = {})
            /\ (/\ proc[p].pc = "second" /\ proc'[p].pc = "respond"
                /\ "completed" \in proc[p].call.update.has
                /\ ~proc[p].call.update.completed
                /\ countObjective(quests, proc[p].call.questId,
                                  proc[p].call.objectiveId) = 1)
                  => \A i \in Position(quests'[proc[p].call.questId].objectives,
                                       proc[p].call.objectiveId) :
                        ~quests'[proc[p].call.questId].objectives[i].completed]_vars
====
